---------------------------- MODULE Spec2Model ----------------------------
(***************************************************************************)
(* A model of GTA-GXTEditor: the whm_table patch-table codec               *)
(* (src/whm_table.py) and the plain-text interchange import/export of the  *)
(* editor (src/main.py).                                                   *)
(*                                                                         *)
(* A Python str is a sequence of code points, a bytes object a sequence of *)
(* numbers 0..255.  Python indexes from 0, TLA+ from 1: the byte at Python *)
(* offset o of b is b[o + 1].                                              *)
(***************************************************************************)
EXTENDS Integers, Sequences, FiniteSets, TLC

VARIABLES
    pc,         \* which step the scenario under check is at
    items,      \* whm_table: the list of {"hash", "text"} items handed to dump_whm_table
    datfile,    \* whm_table: the bytes of the .dat file, or NoFile
    parsed,     \* whm_table: what parse_whm_table returned for datfile
    txt,        \* the text of the TXT file(s) read by a loader (a sequence of strings)
    loaded,     \* what the loader returned for txt
    exported,   \* the text export_txt wrote, or NoFile
    data,       \* GXTEditorApp.data: insertion-ordered tables of insertion-ordered entries
    version,    \* GXTEditorApp.version
    filepath,   \* GXTEditorApp.filepath
    file_type,  \* GXTEditorApp.file_type
    modified,   \* GXTEditorApp.modified
    save_prompt_choice,  \* GXTEditorApp.save_prompt_choice
    remember_gen_extra_choice,  \* GXTEditorApp.remember_gen_extra_choice
    current_table,  \* GXTEditorApp.current_table: the table selected in the list
    saved       \* what _save_to_path handed to the writer of the file

vars == <<pc, items, datfile, parsed, txt, loaded, exported,
          data, version, filepath, file_type, modified, save_prompt_choice,
          remember_gen_extra_choice, current_table, saved>>

whmVars == <<items, datfile, parsed>>
txtVars == <<txt, loaded, exported>>
editorVars == <<data, version, filepath, file_type, modified, save_prompt_choice,
                remember_gen_extra_choice, current_table>>

None == "None"
\* No file at the path: a value no byte sequence equals.
NoFile == <<-1>>

\* No file has been saved.
NoCall == [writer |-> "none"]

\* remember_gen_extra_choice is None, or <<b>> for the remembered answer b.
NoChoice == <<>>

\* current_table is None, or <<name>> for the table selected in the list.
NoSelection == <<>>

(***************************************************************************)
(* Bounds of the model.                                                    *)
(***************************************************************************)
MaxItems == 2       \* items handed to dump_whm_table
MaxEntries == 2     \* header entries of a hand-made .dat file
MaxOffset == 4      \* largest offset field of a hand-made .dat file

(***************************************************************************)
(* Characters the code names.                                              *)
(***************************************************************************)
NUL == 0
LF == 10
CR == 13
SP == 32
EQ == 61
LBRACKET == 91
RBRACKET == 93
BOM == 65279

\* "[BINARY]"
BINARY == <<91, 66, 73, 78, 65, 82, 89, 93>>

(***************************************************************************)
(* Sequence helpers.                                                       *)
(***************************************************************************)
Range(s) == {s[i] : i \in DOMAIN s}

\* Python's s[a:b] for 0 <= a, with b clamped to len(s).
Slice(s, a, b) ==
    LET hi == IF b > Len(s) THEN Len(s) ELSE b
    IN  IF a >= hi THEN <<>> ELSE [i \in 1..(hi - a) |-> s[a + i]]

RECURSIVE Concat(_)
Concat(ss) == IF ss = <<>> THEN <<>> ELSE Head(ss) \o Concat(Tail(ss))

RECURSIVE SeqsUpTo(_, _)
SeqsUpTo(S, n) ==
    IF n = 0 THEN {<<>>}
    ELSE LET shorter == SeqsUpTo(S, n - 1)
         IN  shorter \cup {Append(s, x) : s \in {t \in shorter : Len(t) = n - 1}, x \in S}

(***************************************************************************)
(* Python integers.  TLC's integers are 32 bits wide and signed, so a hash *)
(* (any Python int; a uint32 once packed) is kept as a sign and two        *)
(* halves, value = hi * 65536 + lo with lo in 0..65535.  Counts, offsets   *)
(* and sizes stay plain integers: the files of the model keep them small.  *)
(***************************************************************************)
PyInt(hi, lo) == [neg |-> FALSE, hi |-> hi, lo |-> lo]

\* struct.pack("<I", h) raises struct.error unless 0 <= h < 2^32.
InU32(h) == ~h.neg /\ h.hi < 65536

(***************************************************************************)
(* struct.pack / struct.unpack_from with "<I" and "<II".                   *)
(***************************************************************************)
pack_u32(n) ==
    <<n % 256, (n \div 256) % 256, (n \div 65536) % 256, (n \div 16777216) % 256>>

pack_hash(h) == <<h.lo % 256, h.lo \div 256, h.hi % 256, h.hi \div 256>>

\* struct.unpack_from raises struct.error when fewer than n bytes follow off.
CanRead(b, off, n) == off + n <= Len(b)

read_u32(b, off) ==
    b[off + 1] + 256 * b[off + 2] + 65536 * b[off + 3] + 16777216 * b[off + 4]

read_hash(b, off) == PyInt(b[off + 3] + 256 * b[off + 4], b[off + 1] + 256 * b[off + 2])

(***************************************************************************)
(* str.encode("utf-8") and bytes.decode(enc) of the Python run time, as    *)
(* decode_bytes and dump_whm_table use them.                               *)
(***************************************************************************)
IsSurrogate(c) == c >= 55296 /\ c <= 57343

Utf8Char(c) ==
    IF c < 128 THEN <<c>>
    ELSE IF c < 2048 THEN <<192 + (c \div 64), 128 + (c % 64)>>
    ELSE IF c < 65536 THEN
        <<224 + (c \div 4096), 128 + ((c \div 64) % 64), 128 + (c % 64)>>
    ELSE <<240 + (c \div 262144), 128 + ((c \div 4096) % 64),
           128 + ((c \div 64) % 64), 128 + (c % 64)>>

\* text.encode("utf-8") raises UnicodeEncodeError on a lone surrogate.
CanEncodeUtf8(s) == \A i \in DOMAIN s : ~IsSurrogate(s[i])

EncodeUtf8(s) == Concat([i \in DOMAIN s |-> Utf8Char(s[i])])

IsCont(x) == x >= 128 /\ x <= 191

Failed == [ok |-> FALSE, s |-> <<>>]

Cons(c, r) == IF r.ok THEN [ok |-> TRUE, s |-> <<c>> \o r.s] ELSE Failed

RECURSIVE DecodeUtf8From(_, _)
DecodeUtf8From(b, i) ==
    IF i > Len(b) THEN [ok |-> TRUE, s |-> <<>>]
    ELSE LET c == b[i]
             n == Len(b)
         IN  IF c < 128 THEN Cons(c, DecodeUtf8From(b, i + 1))
             ELSE IF c >= 194 /\ c <= 223 /\ i + 1 <= n /\ IsCont(b[i + 1])
             THEN Cons((c - 192) * 64 + (b[i + 1] - 128), DecodeUtf8From(b, i + 2))
             ELSE IF c >= 224 /\ c <= 239 /\ i + 2 <= n
                     /\ IsCont(b[i + 1]) /\ IsCont(b[i + 2])
                     /\ (c = 224 => b[i + 1] >= 160)
                     /\ (c = 237 => b[i + 1] <= 159)
             THEN Cons((c - 224) * 4096 + (b[i + 1] - 128) * 64 + (b[i + 2] - 128),
                       DecodeUtf8From(b, i + 3))
             ELSE IF c >= 240 /\ c <= 244 /\ i + 3 <= n
                     /\ IsCont(b[i + 1]) /\ IsCont(b[i + 2]) /\ IsCont(b[i + 3])
                     /\ (c = 240 => b[i + 1] >= 144)
                     /\ (c = 244 => b[i + 1] <= 143)
             THEN Cons((c - 240) * 262144 + (b[i + 1] - 128) * 4096
                          + (b[i + 2] - 128) * 64 + (b[i + 3] - 128),
                       DecodeUtf8From(b, i + 4))
             ELSE Failed

DecodeUtf8(b) == DecodeUtf8From(b, 1)

\* cp1252 for the bytes 0x80..0x9F; 0 marks a byte the code page leaves undefined.
Cp1252High ==
    <<8364, 0, 8218, 402, 8222, 8230, 8224, 8225, 710, 8240, 352, 8249, 338, 0, 381, 0,
      0, 8216, 8217, 8220, 8221, 8226, 8211, 8212, 732, 8482, 353, 8250, 339, 0, 382, 376>>

Cp1252Char(c) == IF c >= 128 /\ c <= 159 THEN Cp1252High[c - 127] ELSE c

DecodeCp1252(b) ==
    IF \E i \in DOMAIN b : Cp1252Char(b[i]) = 0 /\ b[i] # 0 THEN Failed
    ELSE [ok |-> TRUE, s |-> [i \in DOMAIN b |-> Cp1252Char(b[i])]]

DecodeLatin1(b) == [ok |-> TRUE, s |-> b]

\* decode_bytes with cp1252 tried before utf-8
decode_bytes_cp1252_first(bts) ==
    IF DecodeCp1252(bts).ok THEN DecodeCp1252(bts).s
    ELSE IF DecodeUtf8(bts).ok THEN DecodeUtf8(bts).s
    ELSE DecodeLatin1(bts).s

\* decode_bytes: the first of utf-8, cp1252, latin1 that decodes.
decode_bytes(bts) ==
    IF DecodeUtf8(bts).ok THEN DecodeUtf8(bts).s
    ELSE IF DecodeCp1252(bts).ok THEN DecodeCp1252(bts).s
    ELSE DecodeLatin1(bts).s

(***************************************************************************)
(* dump_whm_table                                                          *)
(***************************************************************************)
\* The blob: every text UTF-8 encoded and NUL terminated, in input order.
DumpBlob(its) == Concat([k \in DOMAIN its |-> EncodeUtf8(its[k].text) \o <<NUL>>])

\* A dump that records the offset after the text is added instead of before.
DumpOffsetAfterExtend(its, k) == Len(DumpBlob(SubSeq(its, 1, k)))

\* offsets.append(len(blob)) before the k-th text is added.
DumpOffset(its, k) == Len(DumpBlob(SubSeq(its, 1, k - 1)))

DumpHeaderEntry(its, k) == pack_hash(its[k].hash) \o pack_u32(DumpOffset(its, k))

\* struct.pack and str.encode raise before out_path.write_bytes is reached.
DumpRaises(its) ==
    \/ \E k \in DOMAIN its : ~CanEncodeUtf8(its[k].text)
    \/ \E k \in DOMAIN its : ~InU32(its[k].hash)

dump_whm_table(its) ==
    pack_u32(Len(its))
        \o Concat([k \in DOMAIN its |-> DumpHeaderEntry(its, k)])
        \o pack_u32(Len(DumpBlob(its)))
        \o DumpBlob(its)

(***************************************************************************)
(* parse_whm_table                                                         *)
(***************************************************************************)
HeaderCount(d) == read_u32(d, 0)

\* read_entries raises struct.error when the header is cut short.
HeaderComplete(d) ==
    /\ CanRead(d, 0, 4)
    /\ CanRead(d, 4 + 8 * HeaderCount(d), 4)

EntryHash(d, k) == read_hash(d, 4 + 8 * (k - 1))
EntryOffset(d, k) == read_u32(d, 8 + 8 * (k - 1))
BlobSize(d) == read_u32(d, 4 + 8 * HeaderCount(d))
BlobStart(d) == 8 + 8 * HeaderCount(d)

\* blob = data[blob_start:blob_start+blob_size]
Blob(d) == Slice(d, BlobStart(d), BlobStart(d) + BlobSize(d))

\* while j < blob_size and blob[j] != 0: j += 1.  -1 stands for the IndexError
\* of blob[j] when the file holds fewer than blob_size bytes of blob.
RECURSIVE ScanEnd(_, _, _)
ScanEnd(blob, blob_size, j) ==
    IF j >= blob_size THEN j
    ELSE IF j >= Len(blob) THEN -1
    ELSE IF blob[j + 1] = NUL THEN j
    ELSE ScanEnd(blob, blob_size, j + 1)

\* The blob indices the loop reads for an entry at offset off.
ScanReads(blob, blob_size, off) ==
    IF off < blob_size
    THEN LET j == ScanEnd(blob, blob_size, off)
         IN  IF j = -1 THEN off..Len(blob)
             ELSE IF j < blob_size THEN off..j ELSE off..(j - 1)
    ELSE {}

\* bts of one entry.
EntryBytes(blob, blob_size, off) ==
    IF off < blob_size
    THEN Slice(blob, off, ScanEnd(blob, blob_size, off))
    ELSE <<>>

\* A parse that decodes every slice and has no placeholder.
EntryTextNoSentinel(bts) == decode_bytes(bts)

\* text = decode_bytes(bts) if bts else "[BINARY]"
EntryText(bts) == IF bts # <<>> THEN decode_bytes(bts) ELSE BINARY

ParseRaises(d) ==
    \/ ~HeaderComplete(d)
    \/ \E k \in 1..HeaderCount(d) :
          /\ EntryOffset(d, k) < BlobSize(d)
          /\ ScanEnd(Blob(d), BlobSize(d), EntryOffset(d, k)) = -1

parse_whm_table(d) ==
    IF ParseRaises(d) THEN [raised |-> TRUE, results |-> <<>>, reads |-> <<>>]
    ELSE [raised |-> FALSE,
          results |-> [k \in 1..HeaderCount(d) |->
                          [hash |-> EntryHash(d, k),
                           text |-> EntryText(EntryBytes(Blob(d), BlobSize(d),
                                                         EntryOffset(d, k)))]],
          reads |-> [k \in 1..HeaderCount(d) |->
                          ScanReads(Blob(d), BlobSize(d), EntryOffset(d, k))]]

(***************************************************************************)
(* Python text handling used by the TXT loaders.                           *)
(***************************************************************************)
\* str.isspace(): what str.strip() removes.
IsSpace(c) ==
    \/ c >= 9 /\ c <= 13
    \/ c >= 28 /\ c <= 32
    \/ c \in {133, 160, 5760, 8232, 8233, 8239, 8287, 12288}
    \/ c >= 8192 /\ c <= 8202

RECURSIVE LStrip(_)
LStrip(s) == IF s # <<>> /\ IsSpace(Head(s)) THEN LStrip(Tail(s)) ELSE s

RECURSIVE RStrip(_)
RStrip(s) ==
    IF s # <<>> /\ IsSpace(s[Len(s)]) THEN RStrip(SubSeq(s, 1, Len(s) - 1)) ELSE s

Strip(s) == RStrip(LStrip(s))

Contains(s, c) == \E i \in DOMAIN s : s[i] = c

FirstIndex(s, c) == CHOOSE i \in DOMAIN s : s[i] = c /\ \A j \in 1..(i - 1) : s[j] # c

\* line.split("=", 1) of a line that holds the separator.
SplitKey(s, c) == SubSeq(s, 1, FirstIndex(s, c) - 1)

\* A split that keeps what follows the last separator instead of the first.
SplitValueAtLast(s, c) ==
    LET i == CHOOSE k \in DOMAIN s : s[k] = c /\ \A j \in (k + 1)..Len(s) : s[j] # c
    IN  SubSeq(s, i + 1, Len(s))

SplitValue(s, c) == SubSeq(s, FirstIndex(s, c) + 1, Len(s))

\* Text mode reading with universal newlines: "\r\n" and "\r" read as "\n".
RECURSIVE Newlines(_)
Newlines(s) ==
    IF s = <<>> THEN <<>>
    ELSE IF Head(s) = CR
    THEN IF Len(s) >= 2 /\ s[2] = LF THEN <<LF>> \o Newlines(Tail(Tail(s)))
         ELSE <<LF>> \o Newlines(Tail(s))
    ELSE <<Head(s)>> \o Newlines(Tail(s))

\* The lines "for line in f" yields, each without its line end.
RECURSIVE SplitLF(_)
SplitLF(s) ==
    IF s = <<>> THEN <<>>
    ELSE IF Contains(s, LF)
    THEN <<SplitKey(s, LF)>> \o SplitLF(SplitValue(s, LF))
    ELSE <<s>>

FileLines(text) == SplitLF(Newlines(text))

\* The text of a file holding the given lines, each ended by "\n".
RECURSIVE JoinLines(_)
JoinLines(ls) == IF ls = <<>> THEN <<>> ELSE Head(ls) \o <<LF>> \o JoinLines(Tail(ls))

(***************************************************************************)
(* int(s, 16)                                                              *)
(***************************************************************************)
IsDigit(c) == c >= 48 /\ c <= 57
IsUpper(c) == c >= 65 /\ c <= 90
IsLower(c) == c >= 97 /\ c <= 122
IsHexDigit(c) == IsDigit(c) \/ (c >= 65 /\ c <= 70) \/ (c >= 97 /\ c <= 102)
UNDERSCORE == 95

HexValue(c) == IF IsDigit(c) THEN c - 48 ELSE IF c >= 97 THEN c - 87 ELSE c - 55

IsSign(c) == c = 43 \/ c = 45

\* "0x" or "0X"
HasHexPrefix(s) == Len(s) >= 2 /\ s[1] = 48 /\ (s[2] = 120 \/ s[2] = 88)

\* The white space int() skips around the literal: str.isspace() less U+001C..U+001F.
IsIntSpace(c) == IsSpace(c) /\ ~(c >= 28 /\ c <= 31)

RECURSIVE IntLStrip(_)
IntLStrip(s) == IF s # <<>> /\ IsIntSpace(Head(s)) THEN IntLStrip(Tail(s)) ELSE s

RECURSIVE IntRStrip(_)
IntRStrip(s) ==
    IF s # <<>> /\ IsIntSpace(s[Len(s)]) THEN IntRStrip(SubSeq(s, 1, Len(s) - 1)) ELSE s

IntStrip(s) == IntRStrip(IntLStrip(s))

\* The literal after the white space and the sign are removed.
Int16Unsigned(s) ==
    LET t == IntStrip(s) IN IF t # <<>> /\ IsSign(t[1]) THEN Tail(t) ELSE t

\* The digits of the literal: the prefix, and one underscore after it, removed.
Int16Digits(s) ==
    LET u == Int16Unsigned(s)
        v == IF HasHexPrefix(u) THEN Tail(Tail(u)) ELSE u
    IN  IF HasHexPrefix(u) /\ v # <<>> /\ v[1] = UNDERSCORE THEN Tail(v) ELSE v

\* int(s, 16) raises ValueError unless the digits are hex digits, single underscores
\* between them allowed.
Int16Valid(s) ==
    LET d == Int16Digits(s)
    IN  /\ d # <<>>
        /\ IsHexDigit(d[1]) /\ IsHexDigit(d[Len(d)])
        /\ \A i \in DOMAIN d : IsHexDigit(d[i]) \/ d[i] = UNDERSCORE
        /\ \A i \in 1..(Len(d) - 1) : ~(d[i] = UNDERSCORE /\ d[i + 1] = UNDERSCORE)

RECURSIVE Int16Fold(_, _, _)
Int16Fold(d, hi, lo) ==
    IF d = <<>> THEN PyInt(hi, lo)
    ELSE IF Head(d) = UNDERSCORE THEN Int16Fold(Tail(d), hi, lo)
    ELSE LET x == lo * 16 + HexValue(Head(d))
         IN  Int16Fold(Tail(d), hi * 16 + (x \div 65536), x % 65536)

Int16(s) ==
    LET v == Int16Fold(Int16Digits(s), 0, 0)
        t == IntStrip(s)
    IN  [v EXCEPT !.neg = t[1] = 45 /\ (v.hi # 0 \/ v.lo # 0)]

(***************************************************************************)
(* load_txt_items                                                          *)
(***************************************************************************)
\* What the loop body does with line number n of the file: "item" appends an
\* item, "bad_hash" and "no_separator" print a warning, "blank" does nothing.
TxtItemKind(line) ==
    LET l == Strip(line)
    IN  IF l = <<>> THEN "blank"
        ELSE IF Contains(l, EQ)
        THEN IF Int16Valid(SplitKey(l, EQ)) THEN "item" ELSE "bad_hash"
        ELSE "no_separator"

TxtItem(line) ==
    LET l == Strip(line)
    IN  [hash |-> Int16(SplitKey(l, EQ)), text |-> SplitValue(l, EQ)]

RECURSIVE TxtItems(_)
TxtItems(ls) ==
    IF ls = <<>> THEN <<>>
    ELSE IF TxtItemKind(Head(ls)) = "item" THEN <<TxtItem(Head(ls))>> \o TxtItems(Tail(ls))
    ELSE TxtItems(Tail(ls))

\* The warnings printed: the line number and the kind of each skipped line.
TxtWarnings(ls) ==
    {<<n, TxtItemKind(ls[n])>> : n \in {m \in DOMAIN ls :
                                        TxtItemKind(ls[m]) \in {"bad_hash", "no_separator"}}}

load_txt_items(text) ==
    [items |-> TxtItems(FileLines(text)), warnings |-> TxtWarnings(FileLines(text))]

(***************************************************************************)
(* Key validation (module level of main.py).                               *)
(***************************************************************************)
IsAlnum(c) == IsDigit(c) \/ IsUpper(c) \/ IsLower(c)

AllChars(s, P(_)) == \A i \in DOMAIN s : P(s[i])

IsVCKeyChar(c) == IsDigit(c) \/ IsUpper(c) \/ c = UNDERSCORE
IsWordChar(c) == IsAlnum(c) \/ c = UNDERSCORE

IsHexKeyOfAnyLength(key) ==
    Len(key) >= 3 /\ HasHexPrefix(key) /\ \A i \in 3..Len(key) : IsHexDigit(key[i])

\* re.fullmatch(r'0[xX][0-9a-fA-F]{8}', key)
IsHex8Key(key) ==
    Len(key) = 10 /\ HasHexPrefix(key) /\ \A i \in 3..10 : IsHexDigit(key[i])

_validate_key_static(key, ver, ftype) ==
    IF ftype = "dat" THEN IsHex8Key(key)
    ELSE IF ver = "VC" THEN Len(key) >= 1 /\ Len(key) <= 7 /\ AllChars(key, IsVCKeyChar)
    ELSE IF ver = "SA" THEN Len(key) >= 1 /\ Len(key) <= 8 /\ AllChars(key, IsHexDigit)
    ELSE IF ver = "III" THEN Len(key) >= 1 /\ Len(key) <= 7 /\ AllChars(key, IsWordChar)
    ELSE IF ver = "IV"
    THEN IF HasHexPrefix(key) THEN IsHex8Key(key)
         ELSE Len(key) >= 1 /\ AllChars(key, IsWordChar)
    ELSE TRUE

\* The message depends on the version alone; the model keeps the version in its place.
_get_key_validation_message(ver, ftype) == IF ftype = "dat" THEN "DAT" ELSE ver

_validate_key_for_import_optimized(key, ver) ==
    IF _validate_key_static(key, ver, "gxt")
    THEN [is_valid |-> TRUE, msg |-> ""]
    ELSE [is_valid |-> FALSE, msg |-> _get_key_validation_message(ver, "gxt")]

(***************************************************************************)
(* dict: an insertion-ordered mapping.  GXTEditorApp.data is a sequence of *)
(* [name, entries] tables, entries a sequence of [key, value] pairs.       *)
(***************************************************************************)
HasTable(d, name) == \E i \in DOMAIN d : d[i].name = name
TableIndex(d, name) == CHOOSE i \in DOMAIN d : d[i].name = name
HasKey(entries, key) == \E i \in DOMAIN entries : entries[i].key = key
KeyIndex(entries, key) == CHOOSE i \in DOMAIN entries : entries[i].key = key

\* d[key] = value: in place when the key exists, at the end when it is new.
DictSet(entries, key, value) ==
    IF HasKey(entries, key)
    THEN [entries EXCEPT ![KeyIndex(entries, key)].value = value]
    ELSE Append(entries, [key |-> key, value |-> value])

\* data[name] = {} for a new name.
AddTable(d, name) == Append(d, [name |-> name, entries |-> <<>>])

\* data[name][key] = value for an existing table.
SetEntry(d, name, key, value) ==
    [d EXCEPT ![TableIndex(d, name)].entries = DictSet(@, key, value)]

Entries(d, name) == d[TableIndex(d, name)].entries

\* The (table, key, value) triples of an archive.
Triples(d) ==
    UNION {{<<d[i].name, d[i].entries[j].key, d[i].entries[j].value>> :
                j \in DOMAIN d[i].entries} : i \in DOMAIN d}

TableNames(d) == {d[i].name : i \in DOMAIN d}

(***************************************************************************)
(* _load_standard_txt                                                      *)
(***************************************************************************)
\* encoding='utf-8-sig': a byte order mark at the start of the file is dropped.
DropBOM(text) == IF text # <<>> /\ Head(text) = BOM THEN Tail(text) ELSE text

\* has_tables and line.startswith('[') and line.endswith(']')
IsHeaderLine(l, has_tables) ==
    has_tables /\ l # <<>> /\ l[1] = LBRACKET /\ l[Len(l)] = RBRACKET

\* line[1:-1].strip()
HeaderName(l) == Strip(Slice(l, 1, Len(l) - 1))

\* The loop body for line number n of file path.  st.cur is <<>> for None and
\* <<name>> for a current table; st.raised records the KeyError of
\* data[current_table] when the current table was never created.
LoadLine(st, line, n, path, has_tables, ver) ==
    LET l == Strip(line)
    IN  IF st.raised \/ l = <<>> THEN st
        ELSE IF IsHeaderLine(l, has_tables)
        THEN LET name == HeaderName(l)
             IN  [st EXCEPT !.cur = <<name>>,
                            !.data = IF name # <<>> /\ ~HasTable(st.data, name)
                                     THEN AddTable(st.data, name) ELSE @]
        ELSE IF Contains(l, EQ) /\ st.cur # <<>>
        THEN LET key == Strip(SplitKey(l, EQ))
                 value == Strip(SplitValue(l, EQ))
                 check == _validate_key_for_import_optimized(key, ver)
             IN  IF ~check.is_valid
                 THEN [st EXCEPT !.invalid_keys =
                          Append(@, [key |-> key, line_num |-> n, file |-> path,
                                     msg |-> check.msg])]
                 ELSE IF key = <<>> THEN st
                 ELSE IF ~HasTable(st.data, st.cur[1]) THEN [st EXCEPT !.raised = TRUE]
                 ELSE [st EXCEPT !.data = SetEntry(@, st.cur[1], key, value)]
        ELSE st

RECURSIVE LoadLines(_, _, _, _, _, _)
LoadLines(st, ls, n, path, has_tables, ver) ==
    IF n > Len(ls) THEN st
    ELSE LoadLines(LoadLine(st, ls[n], n, path, has_tables, ver), ls, n + 1, path,
                   has_tables, ver)

\* files: a sequence of [path, text]; the current table carries over from one file
\* to the next.
RECURSIVE LoadFiles(_, _, _, _)
LoadFiles(st, files, has_tables, ver) ==
    IF files = <<>> THEN st
    ELSE LoadFiles(LoadLines(st, FileLines(DropBOM(Head(files).text)), 1,
                             Head(files).path, has_tables, ver),
                   Tail(files), has_tables, ver)

MAIN == <<77, 65, 73, 78>>

_load_standard_txt(files, has_tables, ver) ==
    LoadFiles([data |-> IF has_tables THEN <<>> ELSE AddTable(<<>>, MAIN),
               invalid_keys |-> <<>>,
               cur |-> IF has_tables THEN <<>> ELSE <<MAIN>>,
               raised |-> FALSE],
              files, has_tables, ver)

(***************************************************************************)
(* export_txt(single=True)                                                 *)
(***************************************************************************)
\* a < b for two str: by code point, a proper prefix first.
RECURSIVE StrLess(_, _)
StrLess(a, b) ==
    IF b = <<>> THEN FALSE
    ELSE IF a = <<>> THEN TRUE
    ELSE IF Head(a) # Head(b) THEN Head(a) < Head(b)
    ELSE StrLess(Tail(a), Tail(b))

\* sorted(): x goes before the first element that is greater.
RECURSIVE InsertByName(_, _)
InsertByName(sorted, x) ==
    IF sorted = <<>> THEN <<x>>
    ELSE IF StrLess(x.name, Head(sorted).name) THEN <<x>> \o sorted
    ELSE <<Head(sorted)>> \o InsertByName(Tail(sorted), x)

RECURSIVE SortedTables(_)
SortedTables(d) ==
    IF d = <<>> THEN <<>>
    ELSE InsertByName(SortedTables(SubSeq(d, 1, Len(d) - 1)), d[Len(d)])

RECURSIVE InsertByKey(_, _)
InsertByKey(sorted, x) ==
    IF sorted = <<>> THEN <<x>>
    ELSE IF StrLess(x.key, Head(sorted).key) THEN <<x>> \o sorted
    ELSE <<Head(sorted)>> \o InsertByKey(Tail(sorted), x)

\* An export that writes the entries in the order of the dict.
UnsortedEntries(es) == es

RECURSIVE SortedEntries(_)
SortedEntries(es) ==
    IF es = <<>> THEN <<>>
    ELSE InsertByKey(SortedEntries(SubSeq(es, 1, Len(es) - 1)), es[Len(es)])

\* for k, v in sorted(d.items()): f.write(f"{k}={v}\n")
ExportEntries(es) ==
    Concat([j \in DOMAIN es |-> es[j].key \o <<EQ>> \o es[j].value \o <<LF>>])

\* if self.version != 'III': f.write(f"[{t}]\n")
ExportHeader(name, ver) ==
    IF ver # "III" THEN <<LBRACKET>> \o name \o <<RBRACKET, LF>> ELSE <<>>

\* One table of the file: two line ends before every table but the first.
ExportTable(t, i, ver) ==
    (IF i > 1 THEN <<LF, LF>> ELSE <<>>)
        \o ExportHeader(t.name, ver)
        \o ExportEntries(SortedEntries(t.entries))

ExportText(d, ver) ==
    LET ts == SortedTables(d)
    IN  Concat([i \in DOMAIN ts |-> ExportTable(ts[i], i, ver)])

(***************************************************************************)
(* The patch-table codec as a state machine.  A run starts from a list of  *)
(* items, from the text of a TXT file, or from a .dat file made by hand    *)
(* (any header, any offsets, a blob cut short); the actions are the        *)
(* codec's functions.                                                      *)
(***************************************************************************)
\* 0x00000001, 0xDEADBEEF, 0xFFFFFFFF
HashPool == {PyInt(0, 1), PyInt(57005, 48879), PyInt(65535, 65535)}

\* "", "Hi", "e-acute", "A\0B", "[BINARY]"
TextPool == {<<>>, <<72, 105>>, <<233>>, <<65, NUL, 66>>, BINARY}

ItemPool == [hash : HashPool, text : TextPool]

ItemLists == SeqsUpTo(ItemPool, MaxItems)

\* "0xDEADBEEF", "0x00000001", "1f", "0xZZ", "-1", "0x123456789"
PatchKeyPool ==
    {<<48, 120, 68, 69, 65, 68, 66, 69, 69, 70>>,
     <<48, 120, 48, 48, 48, 48, 48, 48, 48, 49>>,
     <<49, 102>>,
     <<48, 120, 90, 90>>,
     <<45, 49>>,
     <<48, 120, 49, 50, 51, 52, 53, 54, 55, 56, 57>>}

\* "", "Hi", "a=b", "Hi ", "e-acute"
PatchTextPool == {<<>>, <<72, 105>>, <<97, EQ, 98>>, <<72, 105, SP>>, <<233>>}

\* key=text lines, a blank line and a line with no separator ("oops").
PatchLinePool ==
    {k \o <<EQ>> \o t : k \in PatchKeyPool, t \in PatchTextPool}
        \cup {<<>>, <<111, 111, 112, 115>>}

MaxLines == 2       \* lines of a TXT file

PatchTexts == {JoinLines(ls) : ls \in SeqsUpTo(PatchLinePool, MaxLines)}

\* Blobs of hand-made files: "", "\0", "A\0", "A", e-acute + "\0", 0xA9 "\0" "A",
\* "\0A\0", 0x81 "\0", 0x80 "\0".
BlobPool ==
    {<<>>, <<NUL>>, <<65, NUL>>, <<65>>, <<195, 169, NUL>>, <<169, NUL, 65>>,
     <<NUL, 65, NUL>>, <<129, NUL>>, <<128, NUL>>}

\* The k-th header entry of a hand-made file carries the k-th hash of this list.
CraftHashes == <<PyInt(57005, 48879), PyInt(0, 1), PyInt(65535, 65535), PyInt(0, 2)>>

\* A file in the layout of the format: count, (hash, offset) entries, blob_size, blob.
CraftFile(offs, blob_size, blob) ==
    pack_u32(Len(offs))
        \o Concat([k \in DOMAIN offs |-> pack_hash(CraftHashes[k]) \o pack_u32(offs[k])])
        \o pack_u32(blob_size)
        \o blob

\* Hand-made files: whole ones, ones whose blob is one byte short of blob_size, and
\* ones cut inside the header.
CraftedFiles ==
    LET whole == {CraftFile(offs, Len(b), b) :
                      offs \in SeqsUpTo(0..MaxOffset, MaxEntries), b \in BlobPool}
        short == {CraftFile(offs, Len(b) + 1, b) :
                      offs \in SeqsUpTo(0..MaxOffset, MaxEntries), b \in BlobPool}
        cut == {SubSeq(f, 1, Len(f) - 5) : f \in {g \in whole : Len(g) >= 8 + 5}}
    IN  whole \cup short \cup cut \cup {<<>>}

\* The destination of dump_whm_table before the call: no file, or a file an earlier
\* run wrote (one entry, hash 2, text "A").
Destinations == {NoFile, CraftFile(<<0>>, 2, <<65, NUL>>)}

NoResult == [raised |-> FALSE, results |-> <<>>, reads |-> <<>>]
NoLoad == [items |-> <<>>, warnings |-> {}]

WhmIdle ==
    /\ exported = NoFile /\ saved = NoCall /\ data = <<>> /\ version = None
    /\ filepath = None /\ file_type = None /\ modified = FALSE
    /\ save_prompt_choice = None
    /\ remember_gen_extra_choice = NoChoice /\ current_table = NoSelection

WhmInit ==
    /\ WhmIdle
    /\ parsed = NoResult
    /\ loaded = NoLoad
    /\ \/ pc = "items" /\ items \in ItemLists /\ txt = <<>> /\ datfile \in Destinations
       \/ pc = "txt" /\ items = <<>> /\ txt \in {<<t>> : t \in PatchTexts}
                     /\ datfile \in Destinations
       \/ pc = "crafted" /\ items = <<>> /\ txt = <<>> /\ datfile \in CraftedFiles

\* load_txt_items(txt_path)
LoadTxtItems ==
    /\ pc = "txt"
    /\ loaded' = load_txt_items(txt[1])
    /\ items' = loaded'.items
    /\ pc' = "items"
    /\ UNCHANGED <<datfile, parsed, txt, exported, saved>>
    /\ UNCHANGED editorVars

\* dump_whm_table that opens the destination for writing before it packs: a file
\* is there, empty, when packing raises.
DumpWhmTableOpeningFirst ==
    /\ pc = "items"
    /\ IF DumpRaises(items)
       THEN pc' = "dump_failed" /\ datfile' = <<>>
       ELSE pc' = "dumped" /\ datfile' = dump_whm_table(items)
    /\ UNCHANGED <<items, parsed, txt, loaded, exported, saved>>
    /\ UNCHANGED editorVars

\* dump_whm_table(out_path, items): nothing is written when packing raises.
DumpWhmTable ==
    /\ pc = "items"
    /\ IF DumpRaises(items)
       THEN pc' = "dump_failed" /\ UNCHANGED datfile
       ELSE pc' = "dumped" /\ datfile' = dump_whm_table(items)
    /\ UNCHANGED <<items, parsed, txt, loaded, exported, saved>>
    /\ UNCHANGED editorVars

\* parse_whm_table(path) of a written or of a hand-made file.
ParseWhmTable ==
    /\ pc \in {"dumped", "crafted"}
    /\ parsed' = parse_whm_table(datfile)
    /\ pc' = IF pc = "dumped" THEN "reread" ELSE "parsed"
    /\ UNCHANGED <<items, datfile, txt, loaded, exported, saved>>
    /\ UNCHANGED editorVars

WhmNext == LoadTxtItems \/ DumpWhmTable \/ ParseWhmTable

SpecWhm == WhmInit /\ [][WhmNext]_vars

(***************************************************************************)
(* Claims about the patch-table codec, checked under SpecWhm.              *)
(***************************************************************************)
\* The file holds its whole header and the blob_size bytes of blob it declares.
FileWhole(d) ==
    /\ Len(d) >= 4
    /\ Len(d) >= 8 + 8 * read_u32(d, 0)
    /\ Len(d) >= 8 + 8 * read_u32(d, 0) + read_u32(d, 4 + 8 * read_u32(d, 0))

\* C1: dump_whm_table followed by parse_whm_table returns the items that were
\* written: as many, with the same hash and the same text, in the same order.
C1_RoundTrip ==
    pc = "reread" => (~parsed.raised /\ parsed.results = items)

\* C2: in a whole file, an entry whose offset is >= blob_size (blob_size itself
\* included) comes back as "[BINARY]" and no blob index is read for it; the read
\* does not fail, and there is one result per header entry, in header order.
C2_OutOfRangeIsSentinel ==
    (pc = "parsed" /\ FileWhole(datfile)) =>
        /\ ~parsed.raised
        /\ Len(parsed.results) = HeaderCount(datfile)
        /\ \A k \in 1..HeaderCount(datfile) :
              /\ parsed.results[k].hash = CraftHashes[k]
              /\ EntryOffset(datfile, k) >= BlobSize(datfile) =>
                    /\ parsed.results[k].text = BINARY
                    /\ parsed.reads[k] = {}

\* A file with an entry at offset = blob_size beside an entry that decodes to text.
C2_Witness ==
    /\ pc = "parsed" /\ FileWhole(datfile)
    /\ HeaderCount(datfile) = 2
    /\ EntryOffset(datfile, 1) = BlobSize(datfile)
    /\ parsed.results[1].text = BINARY
    /\ parsed.results[2].text = <<233>>

\* The end of the string at off: the first index >= off that holds NUL, or the
\* length of the blob.
StringEnd(blob, off) ==
    IF \E j \in off..(Len(blob) - 1) : blob[j + 1] = NUL
    THEN CHOOSE j \in off..(Len(blob) - 1) :
             blob[j + 1] = NUL /\ \A i \in off..(j - 1) : blob[i + 1] # NUL
    ELSE Len(blob)

\* C3: in a whole file, an entry whose offset is < blob_size comes back as the
\* decoding of the bytes from its offset to the next NUL (or the end of the blob),
\* the empty text for an empty slice.
C3_InRangeIsDecodedSlice ==
    (pc = "parsed" /\ FileWhole(datfile)) =>
        \A k \in 1..HeaderCount(datfile) :
            LET off == EntryOffset(datfile, k)
                blob == Blob(datfile)
            IN  off < BlobSize(datfile) =>
                    parsed.results[k].text =
                        decode_bytes(Slice(blob, off, StringEnd(blob, off)))

\* The number of blob bytes the first k items take: each text's UTF-8 length and
\* one NUL.
RECURSIVE BlobBytes(_, _)
BlobBytes(its, k) ==
    IF k = 0 THEN 0 ELSE BlobBytes(its, k - 1) + Len(EncodeUtf8(its[k].text)) + 1

\* C4: the written file keeps the input order: entry_count is the number of items,
\* the k-th header entry carries the k-th item's hash and the blob position where the
\* k-th item's NUL-terminated UTF-8 text starts, and blob_size is the length of all
\* texts plus one NUL each.
C4_DumpKeepsOrder ==
    pc \in {"dumped", "reread"} =>
        LET n == Len(items)
            blob_start == 8 + 8 * n
        IN  /\ read_u32(datfile, 0) = n
            /\ read_u32(datfile, 4 + 8 * n) = BlobBytes(items, n)
            /\ Len(datfile) = blob_start + BlobBytes(items, n)
            /\ \A k \in 1..n :
                  LET off == read_u32(datfile, 8 + 8 * (k - 1))
                      enc == EncodeUtf8(items[k].text)
                  IN  /\ read_hash(datfile, 4 + 8 * (k - 1)) = items[k].hash
                      /\ off = BlobBytes(items, k - 1)
                      /\ Slice(datfile, blob_start + off, blob_start + off + Len(enc)) = enc
                      /\ datfile[blob_start + off + Len(enc) + 1] = NUL

\* Two items written with the larger hash first and a two-byte text first.
C4_Witness ==
    /\ pc = "dumped"
    /\ Len(items) = 2
    /\ items[1] = [hash |-> PyInt(65535, 65535), text |-> <<233>>]
    /\ items[2] = [hash |-> PyInt(0, 1), text |-> <<72, 105>>]

\* A line of the form 0x<8 hex digits>=<text>.
IsPatchLine(l) ==
    /\ Len(l) >= 11
    /\ l[1] = 48 /\ l[2] = 120
    /\ \A i \in 3..10 : IsHexDigit(l[i])
    /\ l[11] = EQ

Hex4(l, i) ==
    4096 * HexValue(l[i]) + 256 * HexValue(l[i + 1]) + 16 * HexValue(l[i + 2])
        + HexValue(l[i + 3])

\* The entry such a line stands for: the value of its key and all that follows the
\* first "=".
PatchLineEntry(l) ==
    [hash |-> PyInt(Hex4(l, 3), Hex4(l, 7)), text |-> SubSeq(l, 12, Len(l))]

\* C5: a text made of lines 0x<8 hex digits>=<text> loads as one entry per line, in
\* line order, with the key's value as hash and all after the first "=" as text; and
\* written and read again these entries come back unchanged.
C5_TxtItemsRoundTrip ==
    LET ls == FileLines(txt[1])
    IN  (pc = "reread" /\ txt # <<>> /\ \A n \in DOMAIN ls : IsPatchLine(ls[n])) =>
            /\ items = [n \in DOMAIN ls |-> PatchLineEntry(ls[n])]
            /\ ~parsed.raised
            /\ parsed.results = items

(***************************************************************************)
(* The interchange text as a state machine.  A run starts from a document  *)
(* in the editor (as open_gxt or the editing operations leave it), which   *)
(* is exported and read back, or from the text of a TXT file, which is     *)
(* read.                                                                   *)
(***************************************************************************)
MaxTables == 2          \* tables of a document
MaxArchiveEntries == 3  \* entries of a document, all tables together
MaxTxtLines == 3        \* lines of a TXT file

GxtVersions == {"VC", "SA", "III"}

\* reader.hasTables(): the III reader has no table directory.
HasTables(ver) == ver # "III"

\* "MAIN", "A", "Z"
ArchiveNamePool == {MAIN, <<65>>, <<90>>}

\* "A", "B1": keys every validator accepts
ArchiveKeyPool == {<<65>>, <<66, 49>>}

\* "x=", " x", "x\ny"
ArchiveValuePool == {<<120, EQ>>, <<SP, 120>>, <<120, LF, 121>>}

\* Sequences without repetition of elements of S, at most n long.
RECURSIVE DistinctSeqs(_, _)
DistinctSeqs(S, n) ==
    IF n = 0 THEN {<<>>}
    ELSE LET shorter == DistinctSeqs(S, n - 1)
         IN  shorter \cup
             UNION {{Append(q, x) : x \in S \ Range(q)} :
                    q \in {t \in shorter : Len(t) = n - 1}}

\* The entries of one table: any keys of the pool, in any order, with any values.
EntrySeqs ==
    UNION {{[j \in DOMAIN ks |-> [key |-> ks[j], value |-> vs[j]]] :
                vs \in [DOMAIN ks -> ArchiveValuePool]} :
           ks \in DistinctSeqs(ArchiveKeyPool, Cardinality(ArchiveKeyPool))}

RECURSIVE TotalEntries(_)
TotalEntries(d) ==
    IF d = <<>> THEN 0 ELSE Len(Head(d).entries) + TotalEntries(Tail(d))

\* Documents of at most n tables with distinct names and at most MaxArchiveEntries
\* entries.
RECURSIVE ArchivesUpTo(_)
ArchivesUpTo(n) ==
    IF n = 0 THEN {<<>>}
    ELSE LET shorter == ArchivesUpTo(n - 1)
         IN  shorter \cup
             UNION {{Append(d, [name |-> x, entries |-> es]) :
                         x \in ArchiveNamePool \ TableNames(d),
                         es \in {e \in EntrySeqs :
                                     Len(e) + TotalEntries(d) <= MaxArchiveEntries}} :
                    d \in {t \in shorter : Len(t) = n - 1}}

Archives == ArchivesUpTo(MaxTables)

\* "[A]", "[]", "[ Z ]", "A=x", "A= y ", "g-=x", "=x", "oops", ""
StdLinePool ==
    {<<LBRACKET, 65, RBRACKET>>, <<LBRACKET, RBRACKET>>,
     <<LBRACKET, SP, 90, SP, RBRACKET>>,
     <<65, EQ, 120>>, <<65, EQ, SP, 121, SP>>, <<103, 45, EQ, 120>>, <<EQ, 120>>,
     <<111, 111, 112, 115>>, <<>>}

StdTexts == {JoinLines(ls) : ls \in SeqsUpTo(StdLinePool, MaxTxtLines)}

NoStdLoad == [data |-> <<>>, invalid_keys |-> <<>>, cur |-> <<>>, raised |-> FALSE]

TxtInit ==
    /\ items = <<>> /\ datfile = NoFile /\ parsed = NoResult
    /\ loaded = NoStdLoad /\ exported = NoFile /\ saved = NoCall
    /\ filepath = None /\ file_type = "gxt" /\ modified = FALSE
    /\ save_prompt_choice = None
    /\ remember_gen_extra_choice = NoChoice /\ current_table = NoSelection
    /\ version \in GxtVersions
    /\ \/ pc = "doc" /\ data \in Archives /\ txt = <<>>
       \/ pc = "txt" /\ data = <<>> /\ txt \in {<<t>> : t \in StdTexts}

\* export_txt(single=True) with a file chosen in the dialog: nothing is written for
\* an empty document.
ExportTxt ==
    /\ pc = "doc"
    /\ IF data = <<>>
       THEN pc' = "nothing_to_export" /\ UNCHANGED <<exported, saved>>
       ELSE pc' = "exported" /\ exported' = ExportText(data, version)
    /\ UNCHANGED <<txt, loaded, saved>>
    /\ UNCHANGED whmVars
    /\ UNCHANGED editorVars

\* _load_standard_txt on the file export_txt wrote.
LoadExported ==
    /\ pc = "exported"
    /\ txt' = <<exported>>
    /\ loaded' = _load_standard_txt(<<[path |-> 1, text |-> exported]>>,
                                    HasTables(version), version)
    /\ pc' = "reloaded"
    /\ UNCHANGED <<exported, saved>>
    /\ UNCHANGED whmVars
    /\ UNCHANGED editorVars

\* _load_standard_txt on a TXT file.
LoadStandardTxt ==
    /\ pc = "txt"
    /\ loaded' = _load_standard_txt(<<[path |-> 1, text |-> txt[1]]>>,
                                    HasTables(version), version)
    /\ pc' = "loaded"
    /\ UNCHANGED <<txt, exported, saved>>
    /\ UNCHANGED whmVars
    /\ UNCHANGED editorVars

TxtNext == ExportTxt \/ LoadExported \/ LoadStandardTxt

SpecTxt == TxtInit /\ [][TxtNext]_vars

(***************************************************************************)
(* Claims about the interchange text, checked under SpecTxt.               *)
(***************************************************************************)
\* The lines of the TXT file that was read, numbered from 1.
ReadLines == FileLines(DropBOM(txt[1]))

\* A key=value line: not blank, not a table header, with a separator.
IsKeyValueLine(line, ver) ==
    /\ Strip(line) # <<>>
    /\ ~IsHeaderLine(Strip(line), HasTables(ver))
    /\ Contains(line, EQ)

LineKey(line) == Strip(SplitKey(Strip(line), EQ))

InvalidKeyLines(ls, ver) ==
    {n \in DOMAIN ls : /\ IsKeyValueLine(ls[n], ver)
                       /\ ~_validate_key_static(LineKey(ls[n]), ver, "gxt")}

ValidKeyLines(ls, ver) ==
    {n \in DOMAIN ls : /\ IsKeyValueLine(ls[n], ver)
                       /\ _validate_key_static(LineKey(ls[n]), ver, "gxt")}

HoldsKey(d, key) == \E t \in Triples(d) : t[2] = key

\* C6: _load_standard_txt returns exactly one error record for each key=value line
\* whose key fails the validation, with the key, the line's number, the file and the
\* message; the line is not in the result; and the lines after it are still parsed.
C6_OneErrorPerInvalidKey ==
    pc = "loaded" =>
        LET ls == ReadLines
            bad == InvalidKeyLines(ls, version)
        IN  /\ ~loaded.raised
            /\ Len(loaded.invalid_keys) = Cardinality(bad)
            /\ \A n \in bad :
                  /\ \E i \in DOMAIN loaded.invalid_keys :
                        loaded.invalid_keys[i] =
                            [key |-> LineKey(ls[n]), line_num |-> n, file |-> 1,
                             msg |-> _get_key_validation_message(version, "gxt")]
                  /\ ~HoldsKey(loaded.data, LineKey(ls[n]))
                  /\ \A m \in ValidKeyLines(ls, version) :
                        m > n => HoldsKey(loaded.data, LineKey(ls[m]))

\* A line that is not blank, not a table header, and has no separator.
IsNoSeparatorLine(line, has_tables) ==
    /\ Strip(line) # <<>>
    /\ ~IsHeaderLine(Strip(line), has_tables)
    /\ ~Contains(line, EQ)

\* C7: a line that is not blank, not a table header and has no "=" is reported by
\* the loader that read it: _load_standard_txt returns an error record for its line
\* number, load_txt_items prints a missing-separator warning for it.
C7_MissingSeparatorReported ==
    /\ pc = "loaded" =>
          \A n \in DOMAIN ReadLines :
              IsNoSeparatorLine(ReadLines[n], HasTables(version)) =>
                  \E i \in DOMAIN loaded.invalid_keys : loaded.invalid_keys[i].line_num = n
    /\ (pc = "items" /\ txt # <<>>) =>
          \A n \in DOMAIN FileLines(txt[1]) :
              IsNoSeparatorLine(FileLines(txt[1])[n], FALSE) =>
                  <<n, "no_separator">> \in loaded.warnings

\* Two archives with the same table names, the same keys in each table and the same
\* value for each key.
SameContent(d, e) == TableNames(d) = TableNames(e) /\ Triples(d) = Triples(e)

AllKeysValid(d, ver) == \A t \in Triples(d) : _validate_key_static(t[2], ver, "gxt")

\* C9 as stated: a document whose keys are valid, exported and read back, has the
\* same tables, keys and values.
C9_ExportImportRoundTrip ==
    (pc = "reloaded" /\ AllKeysValid(data, version)) =>
        /\ ~loaded.raised
        /\ loaded.invalid_keys = <<>>
        /\ SameContent(data, loaded.data)

\* A text the line-oriented format carries unchanged: no line end, no white space at
\* either end, nothing UTF-8 cannot encode.
IsPlainText(s) ==
    ~Contains(s, LF) /\ ~Contains(s, CR) /\ Strip(s) = s /\ CanEncodeUtf8(s)

\* A document the text format can carry: table names that are plain and not empty,
\* values that are plain, and for III (no headers are written) MAIN as only table.
Carriable(d, ver) ==
    /\ \A name \in TableNames(d) : name # <<>> /\ IsPlainText(name)
    /\ \A t \in Triples(d) : IsPlainText(t[3])
    /\ ver = "III" => TableNames(d) = {MAIN}

\* C9, amended: the round trip keeps the tables, keys and values of every document
\* whose keys are valid, whose values and table names have no line end and no white
\* space at either end, and which for III consists of the table MAIN alone.
C9_RoundTripOfCarriable ==
    (pc = "reloaded" /\ AllKeysValid(data, version) /\ Carriable(data, version)) =>
        /\ ~loaded.raised
        /\ loaded.invalid_keys = <<>>
        /\ SameContent(data, loaded.data)

\* A round trip of two tables, one of them holding two entries.
C9_Witness ==
    /\ pc = "reloaded"
    /\ AllKeysValid(data, version) /\ Carriable(data, version)
    /\ version = "SA"
    /\ Len(data) = 2
    /\ \E i \in DOMAIN data : Len(data[i].entries) = 2
    /\ SameContent(data, loaded.data)

Ascending(q) == \A i, j \in DOMAIN q : i < j => StrLess(q[i], q[j])

\* The elements of a set of strings in ascending order.
InOrder(S) == CHOOSE q \in [1..Cardinality(S) -> S] : Ascending(q)

KeysOf(es) == {es[j].key : j \in DOMAIN es}
ValueAt(es, key) == (CHOOSE e \in Range(es) : e.key = key).value

\* The lines of one table as the claim describes them.
ExpectedTable(d, name, ver) ==
    LET es == (CHOOSE t \in Range(d) : t.name = name).entries
        ks == InOrder(KeysOf(es))
    IN  (IF ver = "III" THEN <<>> ELSE <<LBRACKET>> \o name \o <<RBRACKET, LF>>)
            \o Concat([j \in DOMAIN ks |-> ks[j] \o <<EQ>> \o ValueAt(es, ks[j]) \o <<LF>>])

\* C10: the exported text holds the tables in ascending order of name, each with its
\* key=value lines in ascending order of key, whatever the insertion order; each
\* table starts with its [name] line, except for III, where no header is written.
\* (Two line ends separate a table from the one before.)
C10_ExportIsSorted ==
    pc \in {"exported", "reloaded"} =>
        LET ns == InOrder(TableNames(data))
        IN  exported =
                Concat([i \in DOMAIN ns |->
                           (IF i > 1 THEN <<LF, LF>> ELSE <<>>)
                               \o ExpectedTable(data, ns[i], version)])

\* A VC document exported with its tables and its keys inserted in descending order.
C10_Witness ==
    /\ pc = "exported"
    /\ version = "VC"
    /\ Len(data) = 2
    /\ data[1].name = <<90>> /\ data[2].name = MAIN
    /\ Len(data[2].entries) = 2
    /\ data[2].entries[1].key = <<66, 49>> /\ data[2].entries[2].key = <<65>>

(***************************************************************************)
(* The editor (GXTEditorApp).  A run starts from the window as __init__    *)
(* leaves it; the actions are its menu handlers, each with the answers the *)
(* user gives in the dialogs it opens.  pc names the handler that ran      *)
(* last; after open_txt, txt holds the files of the batch and loaded what  *)
(* the handler did with them and the document it started from.             *)
(***************************************************************************)
MaxFiles == 2   \* files selected in one open_txt

\* The choices of VersionDialog.
DialogVersions == {"IV", "VC", "SA", "III"}

\* The buttons of the save prompt.
Replies == {"Save", "Discard", "Cancel"}

\* What the save dialog returns: nothing (cancelled), a name with a wrong extension,
\* a .gxt name.
SavePaths == {"", "out.txt", "out.gxt"}

\* path.lower().endswith('.gxt')
IsGxtPath(path) == path = "out.gxt"

\* os.path.basename(path).lower() == 'whm_table.dat'
IsDatPath(path) == path = "whm_table.dat"

\* The editor's fields as one value.
Editor ==
    [data |-> data, version |-> version, filepath |-> filepath,
     file_type |-> file_type, modified |-> modified,
     save_prompt_choice |-> save_prompt_choice,
     remember_gen_extra_choice |-> remember_gen_extra_choice,
     current_table |-> current_table]

\* The editor's fields after a handler.
Becomes(ed) ==
    /\ data' = ed.data /\ version' = ed.version /\ filepath' = ed.filepath
    /\ file_type' = ed.file_type /\ modified' = ed.modified
    /\ save_prompt_choice' = ed.save_prompt_choice
    /\ remember_gen_extra_choice' = ed.remember_gen_extra_choice
    /\ current_table' = ed.current_table

set_modified(ed, m) == [ed EXCEPT !.modified = m]

\* filter_tables with an empty search box, then setCurrentRow(0) when the list has a
\* row: the list shows MAIN first and the other tables in ascending order, and
\* select_table (local mode) makes the first row the current table.
FirstListed(d) ==
    IF d = <<>> THEN NoSelection
    ELSE IF HasTable(d, MAIN) THEN <<MAIN>>
    ELSE <<SortedTables(d)[1].name>>

\* The answers _save_to_path gets: ok says whether the writer of the file
\* (dump_whm_table, or the writer of the version) returns without an exception; yes
\* and remember are the answer to "generate the character map files?" and its check
\* box, given when the question is asked.
NoWrite == [ok |-> FALSE, yes |-> FALSE, remember |-> FALSE]

WriteAnswers(ed) ==
    IF ed.file_type # "dat" /\ ed.remember_gen_extra_choice = NoChoice
    THEN [ok : BOOLEAN, yes : BOOLEAN, remember : BOOLEAN]
    ELSE [ok : BOOLEAN, yes : {FALSE}, remember : {FALSE}]

\* gen_extra: the remembered choice, else the answer.
GenExtra(ed, written) ==
    IF ed.remember_gen_extra_choice = NoChoice THEN written.yes
    ELSE ed.remember_gen_extra_choice[1]

\* if check_box.isChecked(): self.remember_gen_extra_choice = gen_extra
RememberGenExtra(ed, written) ==
    IF ed.file_type # "dat" /\ ed.remember_gen_extra_choice = NoChoice /\ written.remember
    THEN [ed EXCEPT !.remember_gen_extra_choice = <<written.yes>>]
    ELSE ed

\* _save_to_path: every exception of the writer is caught, and the modified flag is
\* cleared only after the write.
_save_to_path(ed, path, written) ==
    IF written.ok THEN set_modified(RememberGenExtra(ed, written), FALSE)
    ELSE RememberGenExtra(ed, written)

save_file_as(ed, path, written) ==
    IF ed.version = None \/ path = "" THEN ed
    ELSE IF ed.file_type = "dat" /\ ~IsDatPath(path) THEN ed
    ELSE IF ed.file_type # "dat" /\ ~IsGxtPath(path) THEN ed
    ELSE [_save_to_path(ed, path, written) EXCEPT !.filepath = path]

save_file(ed, path, written) ==
    IF ed.version = None THEN ed
    ELSE IF ed.filepath # None THEN _save_to_path(ed, ed.filepath, written)
    ELSE save_file_as(ed, path, written)

\* prompt_save that lets the caller go on after Save without looking at the
\* modified flag
prompt_save_trusting_save(ed, reply, remember, path, written) ==
    LET asked == ed.save_prompt_choice \notin {"Save", "Discard"}
        choice == IF asked THEN reply ELSE ed.save_prompt_choice
        ed1 == IF asked /\ remember /\ reply \in {"Save", "Discard"}
               THEN [ed EXCEPT !.save_prompt_choice = reply] ELSE ed
        ed2 == IF choice = "Save" THEN save_file(ed1, path, written) ELSE ed1
    IN  [ed |-> ed2, proceed |-> choice \in {"Save", "Discard"}]

\* prompt_save: a remembered choice answers without a dialog; the result is the
\* editor after a save and whether the caller may go on.
prompt_save(ed, reply, remember, path, written) ==
    LET asked == ed.save_prompt_choice \notin {"Save", "Discard"}
        choice == IF asked THEN reply ELSE ed.save_prompt_choice
        ed1 == IF asked /\ remember /\ reply \in {"Save", "Discard"}
               THEN [ed EXCEPT !.save_prompt_choice = reply] ELSE ed
        ed2 == IF choice = "Save" THEN save_file(ed1, path, written) ELSE ed1
    IN  [ed |-> ed2,
         proceed |-> IF choice = "Save" THEN ~ed2.modified ELSE choice = "Discard"]

\* if self.modified and not self.prompt_save(): return
MayDiscard(ed, reply, remember, path, written) ==
    IF ed.modified THEN prompt_save(ed, reply, remember, path, written)
    ELSE [ed |-> ed, proceed |-> TRUE]

\* new_gxt once the prompt has let it go on and the version is chosen.
NewDocument(ed, ver) ==
    [ed EXCEPT !.data = IF ver = "III" THEN AddTable(<<>>, MAIN) ELSE <<>>,
               !.version = ver, !.filepath = None, !.file_type = "gxt",
               !.current_table = IF ver = "III" THEN <<MAIN>> ELSE NoSelection,
               !.modified = FALSE]

\* new_gxt after the prompt: p is what the prompt answered.
NewGxtAfterPrompt(p, accepted, ver) ==
    IF ~p.proceed \/ ~accepted THEN p.ed ELSE NewDocument(p.ed, ver)

new_gxt(ed, reply, remember, path, written, accepted, ver) ==
    NewGxtAfterPrompt(MayDiscard(ed, reply, remember, path, written), accepted, ver)

\* The loader open_txt calls for one file of the batch: _load_standard_txt, and for IV
\* IVGXT.load_txt with the key check as callback, which reads the same grammar with
\* table headers.
LoadOne(file, ver) == _load_standard_txt(<<file>>, HasTables(ver), ver)

\* temp_data[table_name].update(table_content)
RECURSIVE UpdateEntries(_, _)
UpdateEntries(entries, more) ==
    IF more = <<>> THEN entries
    ELSE UpdateEntries(DictSet(entries, Head(more).key, Head(more).value), Tail(more))

\* for table_name, table_content in parsed_data.items(): ...
RECURSIVE UpdateTables(_, _)
UpdateTables(temp, parsed_data) ==
    IF parsed_data = <<>> THEN temp
    ELSE LET t == Head(parsed_data)
             with == IF HasTable(temp, t.name) THEN temp ELSE AddTable(temp, t.name)
         IN  UpdateTables([with EXCEPT ![TableIndex(with, t.name)].entries =
                                           UpdateEntries(@, t.entries)],
                          Tail(parsed_data))

\* The main loop of open_txt over the files it gets to: a file with invalid keys
\* adds its records and is skipped, any other file goes into temp_data, and an
\* exception of the loader leaves the loop.
RECURSIVE ImportLoop(_, _, _, _)
ImportLoop(acc, files, i, ver) ==
    IF i > Len(files) \/ acc.raised THEN acc
    ELSE LET r == LoadOne([path |-> i, text |-> files[i]], ver)
         IN  ImportLoop(
                 IF r.raised THEN [acc EXCEPT !.raised = TRUE]
                 ELSE IF r.invalid_keys # <<>>
                 THEN [acc EXCEPT !.all_invalid_keys = @ \o r.invalid_keys]
                 ELSE [acc EXCEPT !.temp_data = UpdateTables(@, r.data)],
                 files, i + 1, ver)

\* An import that stops at the first invalid key it has collected or goes on.
OpenTxtNeverRejects(all_invalid_keys) == FALSE

\* if all_invalid_keys: ... error_dialog.exec(); return
OpenTxtRejects(all_invalid_keys) == all_invalid_keys # <<>>

\* The keys of temp_data that the document holds already.
Conflicts(d, temp) ==
    {t \in Triples(temp) : HasTable(d, t[1]) /\ HasKey(Entries(d, t[1]), t[2])}

\* The merge loop without the question: an imported value always replaces the value
\* of a key that is there.
RECURSIVE MergeEntriesOverwriting(_, _, _)
MergeEntriesOverwriting(entries, more, should_overwrite) ==
    IF more = <<>> THEN entries
    ELSE MergeEntriesOverwriting(DictSet(entries, Head(more).key, Head(more).value),
                                 Tail(more), should_overwrite)

\* The merge loop over the entries of one table of temp_data.
RECURSIVE MergeEntries(_, _, _)
MergeEntries(entries, more, should_overwrite) ==
    IF more = <<>> THEN entries
    ELSE MergeEntries(
             IF HasKey(entries, Head(more).key) /\ ~should_overwrite THEN entries
             ELSE DictSet(entries, Head(more).key, Head(more).value),
             Tail(more), should_overwrite)

RECURSIVE MergeTables(_, _, _)
MergeTables(d, temp, should_overwrite) ==
    IF temp = <<>> THEN d
    ELSE LET t == Head(temp)
             with == IF HasTable(d, t.name) THEN d ELSE AddTable(d, t.name)
         IN  MergeTables([with EXCEPT ![TableIndex(with, t.name)].entries =
                                          MergeEntries(@, t.entries, should_overwrite)],
                         Tail(temp), should_overwrite)

\* added_count > 0 or overwritten_count > 0
MergeChanges(d, temp, should_overwrite) ==
    \E t \in Triples(temp) : t \notin Conflicts(d, temp) \/ should_overwrite

\* should_overwrite: the answer to the overwrite question, asked when there is a
\* conflict.
ShouldOverwrite(d, temp, yes) == Conflicts(d, temp) # {} /\ yes

MergedDocument(ed, temp, should_overwrite) ==
    [ed EXCEPT !.data = MergeTables(@, temp, should_overwrite),
               !.current_table = FirstListed(MergeTables(ed.data, temp, should_overwrite)),
               !.modified = IF MergeChanges(ed.data, temp, should_overwrite)
                            THEN TRUE ELSE @]

_merge_data_with_optimized_prompt(ed, temp, yes) ==
    MergedDocument(ed, temp, ShouldOverwrite(ed.data, temp, yes))

\* The report of an open_txt: how it ended, the version it read the files for, the
\* document it started from, the invalid keys its error dialog lists.
ImportReport(outcome, ver, ed, loop) ==
    [outcome |-> outcome, version |-> ver,
     before |-> [data |-> ed.data, version |-> ed.version, modified |-> ed.modified],
     all_invalid_keys |-> IF outcome = "rejected" THEN loop.all_invalid_keys ELSE <<>>]

\* What a merge adds to the report: temp_data and should_overwrite.
MergeReport(ed, temp, yes) ==
    [temp_data |-> temp, should_overwrite |-> ShouldOverwrite(ed.data, temp, yes)]

\* The non-merge end of open_txt: the document becomes temp_data.
OpenedDocument(ed, temp_data, ver) ==
    [ed EXCEPT !.data = temp_data, !.version = ver, !.filepath = None,
               !.file_type = "gxt", !.modified = FALSE,
               !.current_table = FirstListed(temp_data)]

\* open_txt from the end of its main loop.
OpenTxtAfterLoop(ed0, ed, is_merge_mode, ver, loop, cancelled, yes) ==
    IF loop.raised THEN [ed |-> ed, report |-> ImportReport("error", ver, ed0, loop)]
    ELSE IF cancelled
    THEN [ed |-> ed, report |-> ImportReport("cancelled", ver, ed0, loop)]
    ELSE IF OpenTxtRejects(loop.all_invalid_keys)
    THEN [ed |-> ed, report |-> ImportReport("rejected", ver, ed0, loop)]
    ELSE IF ~is_merge_mode
    THEN [ed |-> OpenedDocument(ed, loop.temp_data, ver),
          report |-> ImportReport("opened", ver, ed0, loop)]
    ELSE [ed |-> _merge_data_with_optimized_prompt(ed, loop.temp_data, yes),
          report |-> MergeReport(ed, loop.temp_data, yes)
                         @@ ImportReport("merged", ver, ed0, loop)]

NoLoop == [temp_data |-> <<>>, all_invalid_keys |-> <<>>, raised |-> FALSE]

\* open_txt after the prompt: p is what the prompt answered, ver the version of the
\* document (merge mode) or of the dialog.
OpenTxtAfterPrompt(ed0, p, is_merge_mode, accepted, ver, files, cancel_at, yes) ==
    IF ~p.proceed \/ (~is_merge_mode /\ ~accepted) \/ files = <<>>
    THEN [ed |-> p.ed, report |-> ImportReport("not_started", ver, ed0, NoLoop)]
    ELSE OpenTxtAfterLoop(ed0, p.ed, is_merge_mode, ver,
             ImportLoop(NoLoop,
                        IF cancel_at = 0 THEN files ELSE SubSeq(files, 1, cancel_at - 1),
                        1, ver),
             cancel_at # 0, yes)

\* open_txt.  files is the selection of the file dialog, cancel_at the file before
\* which the progress dialog is cancelled (0: never; Len(files) + 1: after the last).
\* The result is the editor and a report of what happened.
open_txt(ed, reply, remember, path, written, accepted, dialog_ver, files, cancel_at, yes) ==
    OpenTxtAfterPrompt(ed,
        IF ed.version # None THEN [ed |-> ed, proceed |-> TRUE]
        ELSE MayDiscard(ed, reply, remember, path, written),
        ed.version # None, accepted,
        IF ed.version # None THEN ed.version ELSE dialog_ver,
        files, cancel_at, yes)

\* "[A]" "A=x" / "[Z]" "B1=y" "g-=x" (an invalid key) / "[]" "A=x" (a header without
\* a name)
FilePool ==
    {JoinLines(<<<<LBRACKET, 65, RBRACKET>>, <<65, EQ, 120>>>>),
     JoinLines(<<<<LBRACKET, 90, RBRACKET>>, <<66, 49, EQ, 121>>, <<103, 45, EQ, 120>>>>),
     JoinLines(<<<<LBRACKET, RBRACKET>>, <<65, EQ, 120>>>>)}

Batches == SeqsUpTo(FilePool, MaxFiles)

NoImport == [outcome |-> "none"]

\* _load_settings: the choice the settings file holds, if any.
SavedChoices == {None, "Save", "Discard"}

Init ==
    /\ pc = "start"
    /\ items = <<>> /\ datfile = NoFile /\ parsed = NoResult
    /\ txt = <<>> /\ loaded = NoImport /\ exported = NoFile /\ saved = NoCall
    /\ data = <<>> /\ version = None /\ filepath = None /\ file_type = None
    /\ modified = FALSE /\ save_prompt_choice \in SavedChoices
    /\ remember_gen_extra_choice = NoChoice /\ current_table = NoSelection

\* The answers to the save prompt and to the save dialog behind it: they are given
\* when the prompt is shown, and the save dialog opens for the answer Save.
PromptAnswers(ed, shown) ==
    IF shown /\ ed.modified
    THEN [reply : {"Save"}, remember : BOOLEAN, path : SavePaths \ {"out.gxt"},
          written : {NoWrite}]
         \cup [reply : {"Save"}, remember : BOOLEAN, path : {"out.gxt"},
               written : WriteAnswers(ed)]
         \cup [reply : {"Discard", "Cancel"}, remember : BOOLEAN, path : {""},
               written : {NoWrite}]
    ELSE {[reply |-> "Cancel", remember |-> FALSE, path |-> "", written |-> NoWrite]}

\* The answers to VersionDialog, when it is shown.
VersionAnswers(shown) ==
    IF shown
    THEN [accepted : {TRUE}, ver : DialogVersions] \cup {[accepted |-> FALSE, ver |-> "IV"]}
    ELSE {[accepted |-> FALSE, ver |-> "IV"]}

\* The handlers run while the window is open: closeEvent accepted ends the program.
WindowOpen == pc # "closed"

NewGxt ==
    \E a \in PromptAnswers(Editor, TRUE), v \in VersionAnswers(TRUE) :
        /\ WindowOpen
        /\ Becomes(new_gxt(Editor, a.reply, a.remember, a.path, a.written,
                           v.accepted, v.ver))
        /\ pc' = "new_gxt"
        /\ txt' = <<>>
        /\ loaded' = NoImport
        /\ UNCHANGED <<exported, saved>>
        /\ UNCHANGED whmVars

\* Where the progress dialog is cancelled: never (0), before the first file, after
\* the last one.  A cancellation in between ends like one of these.
CancelPoints(files) == {0, 1, Len(files) + 1}

\* The answer to the overwrite question of the merge, when the merge is reached.
OverwriteAnswers(reached) == IF reached THEN BOOLEAN ELSE {FALSE}

\* open_txt with the files of one of the batches.
OpenTxtOf(batches) ==
    \E a \in PromptAnswers(Editor, version = None), v \in VersionAnswers(version = None),
       files \in batches :
        \E cancel_at \in CancelPoints(files) :
            \E yes \in OverwriteAnswers(version # None /\ cancel_at = 0) :
                LET r == open_txt(Editor, a.reply, a.remember, a.path, a.written,
                                  v.accepted, v.ver, files, cancel_at, yes)
                IN  /\ Becomes(r.ed)
                    /\ txt' = files
                    /\ loaded' = r.report
                    /\ pc' = "open_txt"
                    /\ UNCHANGED <<exported, saved>>
                    /\ UNCHANGED whmVars

OpenTxt == OpenTxtOf(Batches)

Next == NewGxt \/ OpenTxt

Spec == Init /\ [][Next]_vars

(***************************************************************************)
(* Claims about the editor, checked under Spec.                            *)
(***************************************************************************)
\* What reading file i of the last batch alone gives.
BatchFile(i) == LoadOne([path |-> i, text |-> txt[i]], loaded.version)

\* The file was read to its end and has no invalid key.
ErrorFree(i) == ~BatchFile(i).raised /\ BatchFile(i).invalid_keys = <<>>

HasInvalidKey(i) == ~BatchFile(i).raised /\ BatchFile(i).invalid_keys # <<>>

HasEntry(d, name, key) == HasTable(d, name) /\ HasKey(Entries(d, name), key)

\* The tables and the keys of file i are in the document.
Imported(i) ==
    /\ \A name \in TableNames(BatchFile(i).data) : HasTable(data, name)
    /\ \A t \in Triples(BatchFile(i).data) : HasEntry(data, t[1], t[2])

\* open_txt ran last and went through its files without being cancelled.
ImportRan == pc = "open_txt" /\ loaded.outcome \notin {"none", "not_started", "cancelled"}

\* open_txt ran last, and went through its files without an exception.
ImportEnded == ImportRan /\ loaded.outcome # "error"

MaxKeyLen == 2      \* length of the keys made of any characters
MaxHexLen == 9      \* digits after the prefix of the long keys

\* "0", "9", "x", "X", "A", "F", "f", "g", "G", "_", "-"
KeyChars == {48, 57, 120, 88, 65, 70, 102, 103, 71, UNDERSCORE, 45}

\* n times the digit "A"
Fill(n) == [i \in 1..n |-> 65]

\* 1..MaxHexLen characters, all hex digits but possibly the last ("F", "9", "g", "_")
HexBodies == {Fill(n - 1) \o <<c>> : n \in 1..MaxHexLen, c \in {70, 57, 103, UNDERSCORE}}

\* "0x", "0X", "" and "x0" in front of the bodies
KeyPrefixes == {<<48, 120>>, <<48, 88>>, <<>>, <<120, 48>>}

KeyPool == SeqsUpTo(KeyChars, MaxKeyLen) \cup {p \o b : p \in KeyPrefixes, b \in HexBodies}

\* "IV", "VC", "SA", "III" and a version the validator does not know
KeyVersions == {"IV", "VC", "SA", "III", "LCS"}

NoVerdict == [is_valid |-> FALSE, msg |-> "not validated"]

KeyInit ==
    /\ pc = "key"
    /\ txt \in {<<k>> : k \in KeyPool}
    /\ version \in KeyVersions
    /\ file_type \in {"gxt", "dat"}
    /\ loaded = NoVerdict
    /\ items = <<>> /\ datfile = NoFile /\ parsed = NoResult /\ exported = NoFile /\ saved = NoCall
    /\ data = <<>> /\ filepath = None /\ modified = FALSE /\ save_prompt_choice = None
    /\ remember_gen_extra_choice = NoChoice /\ current_table = NoSelection

\* _validate_key_static(key, version, file_type)
ValidateKeyStatic ==
    /\ pc = "key"
    /\ loaded' = [is_valid |-> _validate_key_static(txt[1], version, file_type), msg |-> ""]
    /\ pc' = "validated"
    /\ UNCHANGED <<txt, exported, saved>>
    /\ UNCHANGED whmVars
    /\ UNCHANGED editorVars

\* _validate_key_for_import_optimized(key, version)
ValidateKeyForImport ==
    /\ pc = "key"
    /\ file_type = "gxt"
    /\ loaded' = _validate_key_for_import_optimized(txt[1], version)
    /\ pc' = "validated_for_import"
    /\ UNCHANGED <<txt, exported, saved>>
    /\ UNCHANGED whmVars
    /\ UNCHANGED editorVars

KeyNext == ValidateKeyStatic \/ ValidateKeyForImport

SpecKey == KeyInit /\ [][KeyNext]_vars

(***************************************************************************)
(* Claims about key validation, checked under SpecKey.                     *)
(***************************************************************************)
\* A non-empty string of letters, digits and underscores.
IsBareIdentifier(key) ==
    /\ Len(key) >= 1
    /\ \A i \in DOMAIN key :
           \/ key[i] >= 48 /\ key[i] <= 57
           \/ key[i] >= 65 /\ key[i] <= 90
           \/ key[i] >= 97 /\ key[i] <= 122
           \/ key[i] = 95

IsHexDigitChar(c) ==
    (c >= 48 /\ c <= 57) \/ (c >= 65 /\ c <= 70) \/ (c >= 97 /\ c <= 102)

\* "0x" followed by exactly 8 hex digits.
IsZeroXHex8(key) ==
    Len(key) = 10 /\ key[1] = 48 /\ key[2] = 120 /\ \A i \in 3..10 : IsHexDigitChar(key[i])

\* The key begins with "0x" or "0X".
BeginsWithZeroX(key) == Len(key) >= 2 /\ key[1] = 48 /\ key[2] \in {120, 88}

\* The validator has judged a key of an IV gxt document.
ValidatedIV == pc = "validated" /\ version = "IV" /\ file_type = "gxt"

\* C11 as stated: for version IV and file type gxt, _validate_key_static accepts a
\* key if and only if the key is a bare identifier (a non-empty string of letters,
\* digits and underscores) or is 0x followed by exactly 8 hex digits.
C11_PlainOrHash ==
    ValidatedIV =>
        (loaded.is_valid <=> (IsBareIdentifier(txt[1]) \/ IsZeroXHex8(txt[1])))

\* C11, amended: for version IV and file type gxt, _validate_key_static accepts a
\* key if and only if the key is 0x or 0X followed by exactly 8 hex digits, or is a
\* bare identifier that does not begin with 0x or 0X.
C11_PlainUnlessPrefixed ==
    ValidatedIV =>
        (loaded.is_valid <=>
            IF BeginsWithZeroX(txt[1])
            THEN Len(txt[1]) = 10 /\ \A i \in 3..10 : IsHexDigitChar(txt[1][i])
            ELSE IsBareIdentifier(txt[1]))

\* The key "0xAF", a bare identifier that begins with 0x, has been rejected.
C11_Witness ==
    /\ ValidatedIV
    /\ txt[1] = <<48, 120, 65, 70>>
    /\ ~loaded.is_valid

(***************************************************************************)
(* _save_to_path: what the editor hands to the writer of the file.         *)
(***************************************************************************)
\* "whm_table"
WHM_TABLE == <<119, 104, 109, 95, 116, 97, 98, 108, 101>>

\* f'{h:08X}' for 0 <= h < 2^32, by halves
HexDigitUpper(n) == IF n < 10 THEN 48 + n ELSE 55 + n

Hex4Upper(x) ==
    <<HexDigitUpper(x \div 4096), HexDigitUpper((x \div 256) % 16),
      HexDigitUpper((x \div 16) % 16), HexDigitUpper(x % 16)>>

\* f'0x{h:08X}'
FormatHex8(h) == <<48, 120>> \o Hex4Upper(h.hi) \o Hex4Upper(h.lo)

RECURSIVE SumOf(_)
SumOf(s) == IF s = <<>> THEN 0 ELSE Head(s) + SumOf(Tail(s))

\* IVGXT.gta4_gxt_hash: a pure, total function from strings to uint32.  The
\* algorithm is not part of the sources at hand; this one stands for it.
gta4_gxt_hash(key) == PyInt(Len(key) % 65536, SumOf(key) % 65536)

\* every key hashed, the keys in hex form too
HashStringOfAny(key_str) == FormatHex8(gta4_gxt_hash(key_str))

\* key_str if key_str.lower().startswith('0x') else f'0x{gta4_gxt_hash(key_str):08X}'
HashString(key_str) ==
    IF HasHexPrefix(key_str) THEN key_str ELSE FormatHex8(gta4_gxt_hash(key_str))

\* m_Data[table_name]: one {'hash_string', 'text'} per entry, appended in the order of
\* the table.
IVEntries(es) ==
    [j \in DOMAIN es |-> [hash_string |-> HashString(es[j].key), text |-> es[j].value]]

IVData(d) == [i \in DOMAIN d |-> [name |-> d[i].name, entries |-> IVEntries(d[i].entries)]]

\* table_sort_method of the SA branch without its two MAIN rules
table_sort_by_name(lhs, rhs) == StrLess(lhs, rhs)

\* table_sort_method(lhs, rhs) of the SA branch
table_sort_method(lhs, rhs) ==
    IF rhs = MAIN THEN FALSE
    ELSE IF lhs = MAIN THEN TRUE
    ELSE StrLess(lhs, rhs)

\* sorted(self.data.items(), key=cmp_to_key(lambda a, b: -1 if
\* table_sort_method(a[0], b[0]) else 1)): a key is less than another exactly when
\* table_sort_method holds of their names; x goes before the first element it is
\* less than.
RECURSIVE InsertByMethod(_, _)
InsertByMethod(sorted, x) ==
    IF sorted = <<>> THEN <<x>>
    ELSE IF table_sort_method(x.name, Head(sorted).name) THEN <<x>> \o sorted
    ELSE <<Head(sorted)>> \o InsertByMethod(Tail(sorted), x)

RECURSIVE SortedByMethod(_)
SortedByMethod(d) ==
    IF d = <<>> THEN <<>>
    ELSE InsertByMethod(SortedByMethod(SubSeq(d, 1, Len(d) - 1)), d[Len(d)])

\* {int(k, 16): v for k, v in d.items()}: a key that is already there keeps its
\* place and takes the later value.
RECURSIVE IntKeyed(_)
IntKeyed(es) ==
    IF es = <<>> THEN <<>>
    ELSE DictSet(IntKeyed(SubSeq(es, 1, Len(es) - 1)),
                 Int16(es[Len(es)].key), es[Len(es)].value)

SAData(d) ==
    LET s == SortedByMethod(d)
    IN  [i \in DOMAIN s |-> [name |-> s[i].name, entries |-> IntKeyed(s[i].entries)]]

\* The VC branch orders the tables with VCGXT._table_sort_method, a method of the
\* writer class: MAIN first, the others by name.
VCData(d) == SortedByMethod(d)

\* self.data.get('MAIN', {})
MainEntries(d) == IF HasTable(d, MAIN) THEN Entries(d, MAIN) ELSE <<>>

\* The characters of the values of a list of entries, of a document.
CharsOfEntries(es) == UNION {Range(es[j].value) : j \in DOMAIN es}
CharsOf(d) == UNION {CharsOfEntries(d[i].entries) : i \in DOMAIN d}

\* A writer object's m_WideCharCollection: absent, or a set of characters.
NoCollection == [present |-> FALSE, chars |-> {}]
Collection(S) == [present |-> TRUE, chars |-> S]

\* if hasattr(g, 'm_WideCharCollection'): g.m_WideCharCollection.clear()
KeptCollection(g0) == g0
ClearedCollection(g0) == IF g0.present THEN Collection({}) ELSE g0

\* int(k, 16) raises ValueError in the SA branch.
SAKeysRaise(d) ==
    \E i \in DOMAIN d : \E j \in DOMAIN d[i].entries : ~Int16Valid(d[i].entries[j].key)

\* The gxt branches: the writer, the tables it is given, its wide-character
\* collection when the file is written, and whether the step that generates the
\* character map files (process_special_chars, GenerateWMHHZStuff,
\* generate_wmhhz_stuff) is invoked.  g0 is the collection of the new writer object.
GxtCall(d, ver, gen_extra, g0) ==
    IF ver = "IV"
    THEN [writer |-> "write_iv", tables |-> IVData(d),
          wide |-> Collection(IF gen_extra THEN {c \in CharsOf(d) : c > 255} ELSE {}),
          extras |-> gen_extra]
    ELSE IF ver = "VC"
    THEN [writer |-> "VCGXT", tables |-> VCData(d),
          wide |-> IF gen_extra THEN Collection({c \in CharsOf(d) : c > 127})
                   ELSE ClearedCollection(g0),
          extras |-> gen_extra]
    ELSE IF ver = "SA"
    THEN IF SAKeysRaise(d) THEN [writer |-> "raised"]
         ELSE [writer |-> "SAGXT", tables |-> SAData(d),
               wide |-> IF gen_extra THEN Collection({c \in CharsOf(d) : c > 127})
                        ELSE ClearedCollection(g0),
               extras |-> gen_extra]
    ELSE IF ver = "III"
    THEN [writer |-> "LCGXT", tables |-> <<[name |-> MAIN, entries |-> MainEntries(d)]>>,
          wide |-> IF gen_extra
                   THEN Collection({c \in CharsOfEntries(MainEntries(d)) : c >= 128})
                   ELSE ClearedCollection(g0),
          extras |-> gen_extra]
    ELSE [writer |-> "none"]

\* items_to_dump: the entries of the table whm_table whose key int(key, 16) takes.
RECURSIVE ItemsToDump(_)
ItemsToDump(es) ==
    IF es = <<>> THEN <<>>
    ELSE IF Int16Valid(Head(es).key)
    THEN <<[hash |-> Int16(Head(es).key), text |-> Head(es).value]>>
             \o ItemsToDump(Tail(es))
    ELSE ItemsToDump(Tail(es))

\* self.data.get("whm_table", {})
WhmEntries(d) == IF HasTable(d, WHM_TABLE) THEN Entries(d, WHM_TABLE) ELSE <<>>

DatCall(d) ==
    IF DumpRaises(ItemsToDump(WhmEntries(d))) THEN [writer |-> "raised"]
    ELSE [writer |-> "dump_whm_table", items |-> ItemsToDump(WhmEntries(d))]

\* Whether _save_to_path asks "generate the character map files?".
AsksGenExtra(ed) == ed.file_type # "dat" /\ ed.remember_gen_extra_choice = NoChoice

\* What _save_to_path hands over, with the gen_extra it used and whether it asked.
WriterCall(ed, written, g0) ==
    IF ed.file_type = "dat" THEN DatCall(ed.data)
    ELSE [asked |-> AsksGenExtra(ed), gen_extra |-> GenExtra(ed, written)]
             @@ GxtCall(ed.data, ed.version, GenExtra(ed, written), g0)

(***************************************************************************)
(* Editing and saving a document: tables are there, a table is selected,   *)
(* keys are added through the key dialog, and the document is saved to     *)
(* the file it has.                                                        *)
(***************************************************************************)
MaxSaveTables == 2      \* tables of the document that is saved
MaxSaveEntries == 2     \* entries of the document that is saved
MaxPairs == 2           \* lines typed into the key dialog in batch mode

\* "MAIN", "A", "Z"
SaveNamePool == {MAIN, <<65>>, <<90>>}

\* The keys typed into the key dialog.
\* IV: "A", "0x00010041" (the hash of "A" in hex form), "0xZZ"
\* dat: "0x0000000A", "0x0000000a", "0X0000000A", "A"
\* SA: "1", "01", "FF", "G";  VC: "A", "B1", "a";  III: "B1", "a", "g-"
SaveKeyPool(ver, ftype) ==
    IF ftype = "dat"
    THEN {<<48, 120, 48, 48, 48, 48, 48, 48, 48, 65>>,
          <<48, 120, 48, 48, 48, 48, 48, 48, 48, 97>>,
          <<48, 88, 48, 48, 48, 48, 48, 48, 48, 65>>, <<65>>}
    ELSE IF ver = "IV"
    THEN {<<65>>, <<48, 120, 48, 48, 48, 49, 48, 48, 52, 49>>, <<48, 120, 90, 90>>}
    ELSE IF ver = "SA" THEN {<<49>>, <<48, 49>>, <<70, 70>>, <<71>>}
    ELSE IF ver = "VC" THEN {<<65>>, <<66, 49>>, <<97>>}
    ELSE {<<66, 49>>, <<97>>, <<103, 45>>}

\* The values typed: "x", and e-acute followed by U+4E2D
SaveValuePool == {<<120>>, <<233, 20013>>}

\* The documents at the start: a new gxt document of a version with tables added to
\* it, or a new whm_table document.
SaveTables == {[i \in DOMAIN ns |-> [name |-> ns[i], entries |-> <<>>]] :
                   ns \in DistinctSeqs(SaveNamePool, MaxSaveTables)}

\* _load_settings: the remembered answer to the gen-extra question, if any.
SavedGenExtraChoices == {NoChoice, <<TRUE>>, <<FALSE>>}

SaveInit ==
    /\ pc = "doc"
    /\ items = <<>> /\ datfile = NoFile /\ parsed = NoResult
    /\ txt = <<>> /\ loaded = NoImport /\ exported = NoFile /\ saved = NoCall
    /\ \/ /\ file_type = "gxt" /\ version \in DialogVersions
          /\ data \in SaveTables /\ filepath = "out.gxt"
       \/ /\ file_type = "dat" /\ version = "IV"
          /\ data = <<[name |-> WHM_TABLE, entries |-> <<>>]>>
          /\ filepath = "whm_table.dat"
    /\ current_table = FirstListed(data)
    /\ modified = TRUE
    /\ save_prompt_choice = None
    /\ remember_gen_extra_choice \in SavedGenExtraChoices

\* select_table in local mode: the table clicked in the list becomes current.
select_table(ed, name) == [ed EXCEPT !.current_table = <<name>>]

SelectTable ==
    /\ pc # "saved" /\ WindowOpen
    /\ \E name \in TableNames(data) : Becomes(select_table(Editor, name))
    /\ UNCHANGED <<pc, txt, loaded, exported, saved>>
    /\ UNCHANGED whmVars

\* EditKeyDialog.accept in single mode: the key is stripped and must pass
\* _validate_key_static; the result is <<>> when the dialog stays open and is
\* cancelled.
AcceptSingle(key, value, ver, ftype) ==
    IF _validate_key_static(Strip(key), ver, ftype) /\ Strip(key) # <<>>
    THEN <<[key |-> Strip(key), value |-> value]>>
    ELSE <<>>

\* EditKeyDialog.accept in batch mode: every line key=value must have a valid key,
\* else nothing is accepted.
AcceptBatch(pairs, ver, ftype) ==
    IF \A i \in DOMAIN pairs :
           Strip(pairs[i].key) # <<>> /\ _validate_key_static(Strip(pairs[i].key), ver, ftype)
    THEN [i \in DOMAIN pairs |-> [key |-> Strip(pairs[i].key), value |-> Strip(pairs[i].value)]]
    ELSE <<>>

\* add_key, batch result: the keys that are not in the table yet are added in order.
RECURSIVE AddPairs(_, _)
AddPairs(es, pairs) ==
    IF pairs = <<>> THEN es
    ELSE IF HasKey(es, Head(pairs).key) THEN AddPairs(es, Tail(pairs))
    ELSE AddPairs(Append(es, Head(pairs)), Tail(pairs))

AddedKeys(ed, es) ==
    IF es = Entries(ed.data, ed.current_table[1]) THEN ed
    ELSE [ed EXCEPT !.data[TableIndex(ed.data, ed.current_table[1])].entries = es,
                    !.modified = TRUE]

\* add_key with the pairs the dialog accepted.
add_key(ed, pairs, is_batch) ==
    IF ed.current_table = NoSelection \/ pairs = <<>> THEN ed
    ELSE IF is_batch
    THEN AddedKeys(ed, AddPairs(Entries(ed.data, ed.current_table[1]), pairs))
    ELSE IF HasKey(Entries(ed.data, ed.current_table[1]), pairs[1].key) THEN ed
    ELSE AddedKeys(ed, Append(Entries(ed.data, ed.current_table[1]), pairs[1]))

TypedPairs(ver, ftype) ==
    [key : SaveKeyPool(ver, ftype), value : SaveValuePool]

AddKey ==
    /\ pc = "doc"
    /\ \/ \E p \in TypedPairs(version, file_type) :
              /\ TotalEntries(data) < MaxSaveEntries
              /\ Becomes(add_key(Editor, AcceptSingle(p.key, p.value, version, file_type),
                                 FALSE))
       \/ \E ps \in SeqsUpTo(TypedPairs(version, file_type), MaxPairs) :
              /\ TotalEntries(data) + Len(ps) <= MaxSaveEntries
              /\ Becomes(add_key(Editor, AcceptBatch(ps, version, file_type), TRUE))
    /\ UNCHANGED <<pc, txt, loaded, exported, saved>>
    /\ UNCHANGED whmVars

\* The collection a new writer object may hold: none, or the character U+4E2D.
WriterObjects == {NoCollection, Collection({20013})}

\* save_file with a file path: _save_to_path(self.filepath).  The writer cannot
\* return normally when building its input raised.
SaveFile ==
    /\ pc = "doc"
    /\ \E w \in WriteAnswers(Editor), g0 \in WriterObjects :
           /\ saved' = WriterCall(Editor, w, g0)
           /\ saved'.writer = "raised" => ~w.ok
           /\ Becomes(save_file(Editor, filepath, w))
    /\ pc' = "saved"
    /\ UNCHANGED <<txt, loaded, exported>>
    /\ UNCHANGED whmVars

SaveNext == SelectTable \/ AddKey \/ SaveFile

SpecSave == SaveInit /\ [][SaveNext]_vars

(***************************************************************************)
(* Claims about saving, checked under SpecSave.                            *)
(***************************************************************************)
\* The document has been handed to the writer of version ver.
SavedAs(ver, writer) ==
    pc = "saved" /\ version = ver /\ file_type = "gxt" /\ saved.writer = writer

\* The names of the tables handed to the writer, in their order.
SavedNames == [i \in DOMAIN saved.tables |-> saved.tables[i].name]

\* The names other than MAIN, in the order of q.
RECURSIVE OtherThanMain(_)
OtherThanMain(q) ==
    IF q = <<>> THEN <<>>
    ELSE IF Head(q) = MAIN THEN OtherThanMain(Tail(q))
    ELSE <<Head(q)>> \o OtherThanMain(Tail(q))

\* C12: when an SA document is saved, the tables handed to the writer have MAIN first
\* when there is a MAIN table, then the other tables in strictly ascending order of
\* name, whatever the order of the tables in the editor's data; every table of the
\* document is there once.
C12_SATablesMainFirst ==
    SavedAs("SA", "SAGXT") =>
        /\ Len(SavedNames) = Len(data)
        /\ Range(SavedNames) = TableNames(data)
        /\ HasTable(data, MAIN) => SavedNames[1] = MAIN
        /\ Ascending(OtherThanMain(SavedNames))

\* An SA document whose tables were inserted as Z, MAIN has been saved.
C12_Witness ==
    /\ SavedAs("SA", "SAGXT")
    /\ Len(data) = 2 /\ data[1].name = <<90>> /\ data[2].name = MAIN
    /\ SavedNames = <<MAIN, <<90>>>>


\* The string is 0x followed by 8 hex digits, the letters among them in upper case.
IsUpperHex8(s) ==
    /\ Len(s) = 10 /\ s[1] = 48 /\ s[2] = 120
    /\ \A i \in 3..10 : (s[i] >= 48 /\ s[i] <= 57) \/ (s[i] >= 65 /\ s[i] <= 70)

\* What the claim expects of the hash string made for a key.
IsHashStringOf(hash_string, key) ==
    IF BeginsWithZeroX(key) THEN hash_string = key
    ELSE IsUpperHex8(hash_string) /\ Int16(hash_string) = gta4_gxt_hash(key)

\* C13: when an IV document is saved, every key that is not in hex form is replaced by
\* 0x and the 8 upper-case hex digits of gta4_gxt_hash(key), every key in 0x form is
\* passed unchanged, and the entry list of each table has the length and the order of
\* that table in the editor's data.
C13_IVKeysRehashed ==
    SavedAs("IV", "write_iv") =>
        /\ Len(saved.tables) = Len(data)
        /\ \A i \in DOMAIN data :
               /\ saved.tables[i].name = data[i].name
               /\ Len(saved.tables[i].entries) = Len(data[i].entries)
               /\ \A j \in DOMAIN data[i].entries :
                      /\ saved.tables[i].entries[j].text = data[i].entries[j].value
                      /\ IsHashStringOf(saved.tables[i].entries[j].hash_string,
                                        data[i].entries[j].key)

\* An IV table with a key in hex form followed by a plain key has been saved.
C13_Witness ==
    /\ SavedAs("IV", "write_iv")
    /\ \E i \in DOMAIN data :
           /\ Len(data[i].entries) = 2
           /\ BeginsWithZeroX(data[i].entries[1].key)
           /\ data[i].entries[2].key = <<65>>
           /\ saved.tables[i].entries[2].hash_string # <<65>>


\* A gxt document has been handed to its writer.
SavedGxt == pc = "saved" /\ file_type = "gxt" /\ saved.writer \notin {"raised", "none"}

\* C14: when the generate-extras choice is false, no version's branch invokes the
\* step that generates the character map files, and the writer's wide-character
\* collection holds nothing when the file is written, whatever the texts hold; a
\* remembered choice is used without asking.
C14_NoExtrasWhenDeclined ==
    SavedGxt =>
        /\ ~saved.gen_extra => (~saved.extras /\ saved.wide.chars = {})
        /\ ~saved.asked => remember_gen_extra_choice = <<saved.gen_extra>>

\* A document with a character above U+00FF has been saved with the remembered
\* choice False by a writer object that held a character.
C14_Witness ==
    /\ SavedGxt
    /\ version = "VC"
    /\ ~saved.asked /\ ~saved.gen_extra
    /\ 20013 \in CharsOf(data)
    /\ saved.wide = Collection({})


(***************************************************************************)
(* The table operations of the editor: add_table, delete_table,            *)
(* rename_table and select_table on the documents new_gxt creates.         *)
(***************************************************************************)
MaxDocTables == 2       \* add_table is offered while the document has fewer tables
MaxNameLen == 7         \* {1,7} of validate_table_name

\* [0-9A-Z_]
IsUpperNameChar(c) == IsDigit(c) \/ IsUpper(c) \/ c = UNDERSCORE

\* validate_table_name: the callers pass a stripped name.
validate_table_name(name, ver) ==
    IF ver = "VC" \/ ver = "SA"
    THEN /\ Len(name) >= 1 /\ Len(name) <= MaxNameLen
         /\ \A i \in DOMAIN name : IsUpperNameChar(name[i])
    ELSE IF ver = "IV"
    THEN /\ Len(name) >= 1 /\ Len(name) <= MaxNameLen
         /\ \A i \in DOMAIN name : IsWordChar(name[i])
    ELSE TRUE

\* del data[name]
DelTable(d, name) == SelectSeq(d, LAMBDA t : t.name # name)

\* data[new] = data.pop(old): the table leaves its place and is set under the new
\* name, at the end when new is another name than old.
RenamedTable(d, old, new) ==
    Append(DelTable(d, old), [name |-> new, entries |-> Entries(d, old)])

\* add_table: text and ok are the answer of the input dialog.
add_table(ed, text, ok) ==
    IF ed.file_type = "dat" \/ ed.version = None THEN ed
    ELSE IF ~ok \/ Strip(text) = <<>> THEN ed
    ELSE IF ~validate_table_name(Strip(text), ed.version) THEN ed
    ELSE IF HasTable(ed.data, Strip(text)) THEN ed
    ELSE set_modified([ed EXCEPT !.data = AddTable(@, Strip(text)),
                                 !.current_table = <<Strip(text)>>], TRUE)

\* delete_table: yes is the answer to the confirmation.  del raises KeyError when
\* the current table is not in the data (the selection is left over from before an
\* open_gxt that failed); the exception ends the handler and nothing has changed.
delete_table(ed, yes) ==
    IF ed.file_type = "dat" \/ ed.current_table = NoSelection THEN ed
    ELSE IF ~yes THEN ed
    ELSE IF ~HasTable(ed.data, ed.current_table[1]) THEN ed
    ELSE set_modified([ed EXCEPT !.data = DelTable(@, ed.current_table[1]),
                                 !.current_table = NoSelection], TRUE)

\* rename_table: text and ok are the answer of the input dialog.  data.pop(old)
\* raises KeyError when the current table is not in the data, as in delete_table.
rename_table(ed, text, ok) ==
    IF ed.file_type = "dat" \/ ed.current_table = NoSelection THEN ed
    ELSE IF ~ok \/ Strip(text) = <<>> THEN ed
    ELSE IF ~validate_table_name(Strip(text), ed.version) THEN ed
    ELSE IF HasTable(ed.data, Strip(text)) /\ Strip(text) # ed.current_table[1] THEN ed
    ELSE IF ~HasTable(ed.data, ed.current_table[1]) THEN ed
    ELSE set_modified([ed EXCEPT !.data = RenamedTable(@, ed.current_table[1], Strip(text)),
                                 !.current_table = <<Strip(text)>>], TRUE)

\* The names typed into the input dialogs: " B ", "b", "TOOLONG8", ""
TableNameInputs ==
    {<<SP, 66, SP>>, <<98>>, <<84, 79, 79, 76, 79, 78, 71, 56>>, <<>>}

AddNewTable ==
    /\ WindowOpen
    /\ Len(data) < MaxDocTables
    /\ \E text \in TableNameInputs, ok \in BOOLEAN : Becomes(add_table(Editor, text, ok))
    /\ pc' = "add_table" /\ txt' = <<>> /\ loaded' = NoImport
    /\ UNCHANGED <<exported, saved>>
    /\ UNCHANGED whmVars

DeleteTable ==
    /\ WindowOpen
    /\ \E yes \in BOOLEAN : Becomes(delete_table(Editor, yes))
    /\ pc' = "delete_table" /\ txt' = <<>> /\ loaded' = NoImport
    /\ UNCHANGED <<exported, saved>>
    /\ UNCHANGED whmVars

RenameTable ==
    /\ WindowOpen
    /\ \E text \in TableNameInputs, ok \in BOOLEAN : Becomes(rename_table(Editor, text, ok))
    /\ pc' = "rename_table" /\ txt' = <<>> /\ loaded' = NoImport
    /\ UNCHANGED <<exported, saved>>
    /\ UNCHANGED whmVars

\* closeEvent: the event is accepted when nothing is modified or prompt_save lets
\* the caller go on, and ignored otherwise.
closeEvent(ed, reply, remember, path, written) ==
    [ed |-> MayDiscard(ed, reply, remember, path, written).ed,
     accepted |-> MayDiscard(ed, reply, remember, path, written).proceed]

\* What an observer of closeEvent sees: the editor before, and the choice that
\* answered the prompt (the remembered one, else the reply), if there was a prompt.
CloseReport(ed, reply) ==
    [outcome |-> "close",
     before |-> [data |-> ed.data, modified |-> ed.modified],
     choice |-> IF ~ed.modified THEN None
                ELSE IF ed.save_prompt_choice \in {"Save", "Discard"}
                THEN ed.save_prompt_choice ELSE reply]

CloseEvent ==
    /\ WindowOpen
    /\ \E a \in PromptAnswers(Editor, TRUE) :
           /\ Becomes(closeEvent(Editor, a.reply, a.remember, a.path, a.written).ed)
           /\ pc' = IF closeEvent(Editor, a.reply, a.remember, a.path, a.written).accepted
                    THEN "closed" ELSE "close_ignored"
           /\ loaded' = CloseReport(Editor, a.reply)
    /\ txt' = <<>>
    /\ UNCHANGED <<exported, saved>>
    /\ UNCHANGED whmVars

\* for item in items: data["whm_table"][f'0x{item["hash"]:08X}'] = item["text"]
RECURSIVE DatEntries(_, _)
DatEntries(its, acc) ==
    IF its = <<>> THEN acc
    ELSE DatEntries(Tail(its), DictSet(acc, FormatHex8(Head(its).hash), Head(its).text))

\* open_dat after parse_whm_table returned its.
open_dat(ed, its, path) ==
    [ed EXCEPT !.data = <<[name |-> WHM_TABLE, entries |-> DatEntries(its, <<>>)]>>,
               !.version = "IV", !.filepath = path, !.file_type = "dat",
               !.current_table = <<WHM_TABLE>>, !.modified = FALSE]

\* new_whm once the prompt has let it go on.
NewWhmDocument(ed) ==
    [ed EXCEPT !.data = AddTable(<<>>, WHM_TABLE), !.version = "IV", !.filepath = None,
               !.file_type = "dat", !.current_table = <<WHM_TABLE>>, !.modified = FALSE]

\* new_whm after the prompt: p is what the prompt answered.
NewWhmAfterPrompt(p) == IF ~p.proceed THEN p.ed ELSE NewWhmDocument(p.ed)

new_whm(ed, reply, remember, path, written) ==
    NewWhmAfterPrompt(MayDiscard(ed, reply, remember, path, written))

\* What the readers of gxt_parser make of a .gxt file: the version getVersion
\* recognizes (None when it recognizes none), the tables parseTables and
\* parseTKeyTDat yield, and the table at which a reader raises (0: none does).
GxtFile(ver, tables, fails_at) ==
    [kind |-> "gxt", bytes |-> <<>>, version |-> ver, tables |-> tables,
     fails_at |-> fails_at]

\* A file named whm_table.dat with these bytes.
DatFile(bytes) ==
    [kind |-> "dat", bytes |-> bytes, version |-> None, tables |-> <<>>, fails_at |-> 0]

\* No path: the dialog was cancelled, or the path does not exist.
NoPath == [kind |-> "none", bytes |-> <<>>, version |-> None, tables |-> <<>>, fails_at |-> 0]

\* The tables open_gxt has stored when the loop over the reader's tables ends or
\* raises: a version without tables stores the entries under MAIN.
GxtTablesRead(f) ==
    IF HasTables(f.version)
    THEN SubSeq(f.tables, 1, IF f.fails_at = 0 THEN Len(f.tables) ELSE f.fails_at - 1)
    ELSE IF f.fails_at = 0
    THEN <<[name |-> MAIN, entries |-> f.tables[1].entries]>>
    ELSE <<>>

\* open_gxt: an unrecognized version raises before data.clear(); a reader that raises
\* later leaves what the loop stored so far; every exception is caught and reported.
open_gxt(ed, f, path) ==
    IF f.version = None THEN ed
    ELSE IF f.fails_at # 0 THEN [ed EXCEPT !.data = GxtTablesRead(f)]
    ELSE [ed EXCEPT !.data = GxtTablesRead(f), !.version = f.version, !.filepath = path,
                    !.file_type = "gxt", !.current_table = FirstListed(GxtTablesRead(f)),
                    !.modified = FALSE]

\* open_dat with the call of parse_whm_table in it: when that raises, nothing has
\* been changed yet.
OpenDatFile(ed, parse, path) ==
    IF parse.raised THEN ed ELSE open_dat(ed, parse.results, path)

\* open_file: the handler is chosen by the name of the file.
open_file(ed, f) ==
    IF f.kind = "gxt" THEN open_gxt(ed, f, "out.gxt")
    ELSE IF f.kind = "dat" THEN OpenDatFile(ed, parse_whm_table(f.bytes), "whm_table.dat")
    ELSE ed

\* open_file after the prompt of open_file_dialog.
OpenFileAfterPrompt(p, f) == IF ~p.proceed THEN p.ed ELSE open_file(p.ed, f)

open_file_dialog(ed, reply, remember, path, written, f) ==
    OpenFileAfterPrompt(MayDiscard(ed, reply, remember, path, written), f)

\* dropEvent: the first dropped file is opened.
dropEvent(ed, f) == open_file(ed, f)

\* Whether opening the file fails (an exception is caught and reported).
OpenFails(f) ==
    \/ f.kind = "gxt" /\ (f.version = None \/ f.fails_at # 0)
    \/ f.kind = "dat" /\ ParseRaises(f.bytes)

\* What an observer of a handler that replaces the document sees: the editor before,
\* whether prompt_save was called and what it returned, and the file.
ReplaceReport(ed, prompted, proceed, f) ==
    [outcome |-> "replace",
     before |-> [data |-> ed.data, version |-> ed.version, filepath |-> ed.filepath,
                 file_type |-> ed.file_type, modified |-> ed.modified],
     prompted |-> prompted, proceed |-> proceed,
     opened |-> f.kind # "none", failed |-> OpenFails(f)]

\* "K" = "x"
OneEntry == <<[key |-> <<75>>, value |-> <<120>>]>>

\* The files there are to open: a whm_table.dat with one entry (hash 2, "A"), one cut
\* inside its header, a VC archive with the tables A and MAIN that reads well or
\* raises at its second table, a file of no known version.
OpenFilePool ==
    {DatFile(CraftFile(<<0>>, 2, <<65, NUL>>)), DatFile(<<1, 0, 0, 0>>),
     GxtFile(None, <<>>, 0)}
        \cup {GxtFile("VC", <<[name |-> <<65>>, entries |-> OneEntry],
                              [name |-> MAIN, entries |-> <<>>]>>, k) : k \in {0, 2}}

NewWhm ==
    /\ WindowOpen
    /\ \E a \in PromptAnswers(Editor, TRUE) :
           /\ Becomes(new_whm(Editor, a.reply, a.remember, a.path, a.written))
           /\ loaded' = ReplaceReport(Editor, modified,
                            MayDiscard(Editor, a.reply, a.remember, a.path, a.written).proceed,
                            NoPath)
    /\ pc' = "new_whm" /\ txt' = <<>>
    /\ UNCHANGED <<exported, saved>>
    /\ UNCHANGED whmVars

OpenFileDialog ==
    /\ WindowOpen
    /\ \E a \in PromptAnswers(Editor, TRUE), f \in OpenFilePool \cup {NoPath} :
           /\ Becomes(open_file_dialog(Editor, a.reply, a.remember, a.path, a.written, f))
           /\ loaded' = ReplaceReport(Editor, modified,
                            MayDiscard(Editor, a.reply, a.remember, a.path, a.written).proceed,
                            f)
    /\ pc' = "open_file_dialog" /\ txt' = <<>>
    /\ UNCHANGED <<exported, saved>>
    /\ UNCHANGED whmVars

DropEvent ==
    /\ WindowOpen
    /\ \E f \in OpenFilePool :
           /\ Becomes(dropEvent(Editor, f))
           /\ loaded' = ReplaceReport(Editor, FALSE, FALSE, f)
    /\ pc' = "drop" /\ txt' = <<>>
    /\ UNCHANGED <<exported, saved>>
    /\ UNCHANGED whmVars

TablesNext ==
    \/ NewGxt \/ SelectTable \/ AddNewTable \/ DeleteTable \/ RenameTable
    \/ CloseEvent \/ NewWhm \/ OpenFileDialog \/ DropEvent

SpecTables == Init /\ [][TablesNext]_vars

\* C15: in a gxt document every table name is 1 to 7 characters of the version's
\* alphabet: upper-case letters, digits and underscore for VC and SA, letters, digits
\* and underscore for IV and III.
C15_TableNamesValid ==
    file_type = "gxt" =>
        \A i \in DOMAIN data :
            /\ Len(data[i].name) >= 1 /\ Len(data[i].name) <= MaxNameLen
            /\ \A j \in DOMAIN data[i].name :
                   IF version \in {"VC", "SA"} THEN IsUpperNameChar(data[i].name[j])
                   ELSE IsWordChar(data[i].name[j])

\* C16: a document of version III always has the table MAIN.
C16_IIIHasMain == version = "III" => HasTable(data, MAIN)


\* C17: in the entry list handed to a hashed writer (the item list of dump_whm_table,
\* every table of write_iv) no two entries carry the same 32-bit hash.
C17_HashesDistinct ==
    /\ saved.writer = "dump_whm_table" =>
           \A i, j \in DOMAIN saved.items :
               i # j => saved.items[i].hash # saved.items[j].hash
    /\ saved.writer = "write_iv" =>
           \A t \in DOMAIN saved.tables :
               \A i, j \in DOMAIN saved.tables[t].entries :
                   i # j => saved.tables[t].entries[i].hash_string
                                # saved.tables[t].entries[j].hash_string


(***************************************************************************)
(* Opening a whm_table.dat file and saving it again.                       *)
(***************************************************************************)
\* The .dat files on disk: the ones dump_whm_table writes and the hand-made ones.
DatFiles ==
    {dump_whm_table(its) : its \in {l \in ItemLists : ~DumpRaises(l)}} \cup CraftedFiles

DatInit ==
    /\ pc = "dat_file"
    /\ items = <<>> /\ datfile \in DatFiles /\ parsed = NoResult
    /\ txt = <<>> /\ loaded = NoImport /\ exported = NoFile /\ saved = NoCall
    /\ data = <<>> /\ version = None /\ filepath = None /\ file_type = None
    /\ modified = FALSE /\ save_prompt_choice = None
    /\ remember_gen_extra_choice = NoChoice /\ current_table = NoSelection

\* open_dat(path): an exception of parse_whm_table is caught and reported, the
\* document stays as it was.
OpenDat ==
    /\ pc = "dat_file"
    /\ parsed' = parse_whm_table(datfile)
    /\ IF parsed'.raised
       THEN pc' = "open_failed" /\ UNCHANGED editorVars
       ELSE pc' = "doc" /\ Becomes(open_dat(Editor, parsed'.results, "whm_table.dat"))
    /\ UNCHANGED <<items, datfile, txt, loaded, exported, saved>>

DatNext == OpenDat \/ SaveFile

SpecDat == DatInit /\ [][DatNext]_vars

\* C18: a save that follows open_dat with no edit in between hands dump_whm_table
\* exactly the (hash, text) sequence parse_whm_table returned.
C18_SaveHandsParsedItems ==
    pc = "saved" => saved.writer = "dump_whm_table" /\ saved.items = parsed.results


\* C19: parse_whm_table fails as a whole, with no entry list, on every file that is
\* shorter than 4 + 8*entry_count + 4 bytes or whose blob_size exceeds the bytes that
\* follow the header.
C19_InconsistentFileFails ==
    (pc = "parsed" /\ ~FileWhole(datfile)) => (parsed.raised /\ parsed.results = <<>>)


\* Every byte of bts has a character in cp1252.
Cp1252Defined(bts) == \A i \in DOMAIN bts : bts[i] \notin {129, 141, 143, 144, 157}

\* The bytes parse_whm_table hands decode_bytes for the k-th entry.
DecodedBytes(d, k) == EntryBytes(Blob(d), BlobSize(d), EntryOffset(d, k))

\* C20: decode_bytes returns a string for every byte sequence it is given: the UTF-8
\* decoding when the bytes are valid UTF-8, else the cp1252 decoding when every byte
\* has a cp1252 character, else the latin1 decoding; and the string is one
\* dump_whm_table can encode as UTF-8, which decodes back to the same string.
C20_FirstEncodingThatDecodes ==
    (pc = "parsed" /\ ~parsed.raised) =>
        \A k \in DOMAIN parsed.results :
            LET bts == DecodedBytes(datfile, k)
                text == parsed.results[k].text
            IN  bts # <<>> =>
                    /\ text = IF DecodeUtf8(bts).ok THEN DecodeUtf8(bts).s
                              ELSE IF Cp1252Defined(bts)
                              THEN [i \in DOMAIN bts |-> Cp1252Char(bts[i])]
                              ELSE bts
                    /\ ~DumpRaises(<<[hash |-> parsed.results[k].hash, text |-> text]>>)
                    /\ DecodeUtf8(EncodeUtf8(text)) = [ok |-> TRUE, s |-> text]

\* An entry whose bytes are 0x80: not UTF-8, and the euro sign in cp1252.
C20_Witness ==
    /\ pc = "parsed" /\ ~parsed.raised
    /\ \E k \in DOMAIN parsed.results :
           /\ DecodedBytes(datfile, k) = <<128>>
           /\ parsed.results[k].text = <<8364>>


(***************************************************************************)
(* Further claims about the patch-table codec, checked under SpecWhm.      *)
(***************************************************************************)
\* C21: dump_whm_table never partially applies: when packing the header or encoding
\* a text fails, the destination is as it was before the call (no file stays no
\* file, a file there keeps its bytes); otherwise the destination becomes, in the
\* one step that writes it, the complete header and blob of the items.
C21_DumpAllOrNothing ==
    [][(pc = "items" /\ pc' # "items") =>
           IF DumpRaises(items)
           THEN pc' = "dump_failed" /\ datfile' = datfile
           ELSE pc' = "dumped" /\ datfile' = dump_whm_table(items)]_vars

\* A dump that failed on a hash outside 0..2^32-1 with a file at the destination.
C21_Witness ==
    /\ pc = "dump_failed"
    /\ datfile = CraftFile(<<0>>, 2, <<65, NUL>>)
    /\ \E k \in DOMAIN items : ~InU32(items[k].hash)


\* C22: every entry load_txt_items returns has a hash in 0..2^32-1, and there is one
\* entry for each line whose part before the first "=" is 0x and 8 hex digits, none
\* for any other line.
C22_LoadedHashesAreU32 ==
    (pc = "items" /\ txt # <<>>) =>
        /\ \A k \in DOMAIN items : InU32(items[k].hash)
        /\ Len(items) = Cardinality({n \in DOMAIN FileLines(txt[1]) :
                                         IsPatchLine(FileLines(txt[1])[n])})


(***************************************************************************)
(* Claims about the editor's handlers, checked under SpecTables.           *)
(***************************************************************************)
\* C23: closeEvent accepts the close exactly when nothing was modified, or the choice
\* (asked or remembered) is Discard, or it is Save and modified is False after
\* save_file ran; when the close is ignored, the data and the modified flag are as
\* they were before.
C23_CloseNeedsSaveOrDiscard ==
    pc \in {"closed", "close_ignored"} =>
        /\ pc = "closed" <=>
               \/ ~loaded.before.modified
               \/ loaded.choice = "Discard"
               \/ loaded.choice = "Save" /\ ~modified
        /\ pc = "close_ignored" =>
               data = loaded.before.data /\ modified = loaded.before.modified

\* A close ignored after the choice Save: the save failed or its dialog was
\* cancelled, and the tables added before are still there, modified.
C23_Witness ==
    /\ pc = "close_ignored" /\ loaded.choice = "Save"
    /\ modified /\ Len(data) = 2


\* C24: unsaved changes are never discarded without a prompt: when new_whm,
\* open_file_dialog or a dropped file changes the data of a modified document,
\* prompt_save was called first and returned True.
C24_NoDiscardWithoutPrompt ==
    (/\ pc \in {"new_whm", "open_file_dialog", "drop"}
     /\ loaded.before.modified
     /\ data # loaded.before.data) =>
        loaded.prompted /\ loaded.proceed


\* C25: when opening a file fails, the editor is as it was before the open was
\* attempted: data, version, filepath, file_type and modified keep their values.
\* (The steps are the ones with no prompt before the open: a dropped file, and the
\* dialog on an unmodified document.)
C25_FailedOpenChangesNothing ==
    (/\ pc \in {"open_file_dialog", "drop"}
     /\ ~loaded.prompted
     /\ loaded.opened /\ loaded.failed) =>
        /\ data = loaded.before.data
        /\ version = loaded.before.version
        /\ filepath = loaded.before.filepath
        /\ file_type = loaded.before.file_type
        /\ modified = loaded.before.modified


(***************************************************************************)
(* Claims about saving and the modified flag, checked under SpecSave.      *)
(***************************************************************************)
\* The entries the writer call holds for the table name: the items of
\* dump_whm_table for the table whm_table, the entries of the table of that name
\* for the gxt writers, none when the call holds no such table.
WrittenEntries(call, name) ==
    IF call.writer = "dump_whm_table"
    THEN IF name = WHM_TABLE THEN call.items ELSE <<>>
    ELSE IF \E i \in DOMAIN call.tables : call.tables[i].name = name
    THEN call.tables[CHOOSE i \in DOMAIN call.tables : call.tables[i].name = name].entries
    ELSE <<>>

\* C26: whenever a save has cleared the modified flag, the written file holds the
\* data: for every table of the document the writer was handed as many entries as
\* the table has, so that no entry of the data is left out of the file.
C26_SavedFileHoldsData ==
    (pc = "saved" /\ ~modified) =>
        \A i \in DOMAIN data :
            Len(WrittenEntries(saved, data[i].name)) = Len(data[i].entries)


(***************************************************************************)
(* A whm_table document: new_whm at the program's start, then keys are     *)
(* added, TXT files are imported, the table buttons are used and new_whm   *)
(* is run again.                                                           *)
(***************************************************************************)
WhmDocInit ==
    /\ pc = "doc"
    /\ items = <<>> /\ datfile = NoFile /\ parsed = NoResult
    /\ txt = <<>> /\ loaded = NoImport /\ exported = NoFile /\ saved = NoCall
    /\ data = AddTable(<<>>, WHM_TABLE) /\ version = "IV" /\ filepath = None
    /\ file_type = "dat" /\ modified = FALSE /\ save_prompt_choice \in SavedChoices
    /\ remember_gen_extra_choice = NoChoice /\ current_table = <<WHM_TABLE>>

WhmDocNext ==
    \/ AddKey
    \/ OpenTxt
    \/ NewWhm
    \/ AddNewTable
    \/ DeleteTable
    \/ RenameTable

SpecWhmDoc == WhmDocInit /\ [][WhmDocNext]_vars

\* C27: whenever file_type is 'dat', the data is exactly one table named whm_table
\* and every key of that table passes the key rule of whm_table documents (0x and
\* 8 hex digits).
C27_DatIsOneWhmTable ==
    file_type = "dat" =>
        /\ Len(data) = 1
        /\ data[1].name = WHM_TABLE
        /\ \A j \in DOMAIN data[1].entries :
               _validate_key_static(data[1].entries[j].key, version, "dat")


(***************************************************************************)
(* edit_selected_items in local mode: the rows selected in the key table   *)
(* are entries of the current table; one row opens the single dialog, more *)
(* rows the batch dialog.                                                  *)
(***************************************************************************)
MaxEditEntries == 3     \* entries of the table that is edited

\* del d[key]
DelKey(entries, key) ==
    LET j == KeyIndex(entries, key)
    IN  SubSeq(entries, 1, j - 1) \o SubSeq(entries, j + 1, Len(entries))

\* The single edit with the pair the dialog returned: a new key that is already
\* in the table is refused; else the old key is deleted when the key changed and
\* the pair is assigned.
EditSingle(entries, key, new_key, new_val) ==
    IF new_key # key /\ HasKey(entries, new_key) THEN entries
    ELSE IF new_key # key THEN DictSet(DelKey(entries, key), new_key, new_val)
    ELSE DictSet(entries, new_key, new_val)

SingleRefused(entries, key, new_key) == new_key # key /\ HasKey(entries, new_key)

\* duplicate_new_keys: two edited entries are given the same key.
DuplicateNewKeys(new_pairs) ==
    \E i, j \in DOMAIN new_pairs : i # j /\ new_pairs[i].key = new_pairs[j].key

\* conflicts: a new key is a key of the table that is not among the edited ones.
EditConflicts(entries, rows, new_pairs) ==
    \E i \in DOMAIN new_pairs :
        \E j \in DOMAIN entries :
            /\ \A r \in DOMAIN rows : rows[r] # j
            /\ entries[j].key = new_pairs[i].key

\* The pair edits[old_key] of an edited row.
EditOf(rows, new_pairs, j) == new_pairs[CHOOSE r \in DOMAIN rows : rows[r] = j]

\* new_table_dict: the table is rebuilt in its order, an edited key by its new pair.
RECURSIVE RebuiltTable(_, _, _, _)
RebuiltTable(entries, rows, new_pairs, n) ==
    IF n = 0 THEN <<>>
    ELSE IF \E r \in DOMAIN rows : rows[r] = n
    THEN DictSet(RebuiltTable(entries, rows, new_pairs, n - 1),
                 EditOf(rows, new_pairs, n).key, EditOf(rows, new_pairs, n).value)
    ELSE DictSet(RebuiltTable(entries, rows, new_pairs, n - 1),
                 entries[n].key, entries[n].value)

BatchRefused(entries, rows, new_pairs) ==
    \/ Len(new_pairs) # Len(rows)
    \/ DuplicateNewKeys(new_pairs)
    \/ EditConflicts(entries, rows, new_pairs)

\* How an edit ended: the dialog was cancelled, the handler refused the pairs, or
\* the pairs were applied.
EditOutcome(ed, rows, pairs) ==
    IF ed.current_table = NoSelection \/ rows = <<>> THEN "cancelled"
    ELSE IF pairs = <<>> THEN "cancelled"
    ELSE IF Len(rows) = 1
    THEN IF SingleRefused(Entries(ed.data, ed.current_table[1]),
                          Entries(ed.data, ed.current_table[1])[rows[1]].key, pairs[1].key)
         THEN "refused" ELSE "applied"
    ELSE IF BatchRefused(Entries(ed.data, ed.current_table[1]), rows, pairs)
    THEN "refused" ELSE "applied"

\* edit_selected_items: rows are the positions of the selected entries in the
\* current table, pairs what the dialog returned (<<>> when it was cancelled).
edit_selected_items(ed, rows, pairs) ==
    IF EditOutcome(ed, rows, pairs) # "applied" THEN ed
    ELSE IF Len(rows) = 1
    THEN [ed EXCEPT !.data[TableIndex(ed.data, ed.current_table[1])].entries =
                        EditSingle(@, @[rows[1]].key, pairs[1].key, pairs[1].value),
                    !.modified = TRUE]
    ELSE [ed EXCEPT !.data[TableIndex(ed.data, ed.current_table[1])].entries =
                        RebuiltTable(@, rows, pairs, Len(@)),
                    !.modified = TRUE]

\* The batch edit dialog: the number of lines must be the number of selected
\* entries, and every line must hold a valid key.
AcceptBatchEdit(pairs, n, ver, ftype) ==
    IF Len(pairs) # n THEN <<>> ELSE AcceptBatch(pairs, ver, ftype)

\* The report of an edit: the document before it, the rows, the pairs the dialog
\* returned and how it ended.
EditReport(ed, rows, pairs) ==
    [outcome |-> EditOutcome(ed, rows, pairs), before |-> ed.data,
     table |-> ed.current_table, rows |-> rows, pairs |-> pairs]

\* "A", "B", "C": the keys of the table at the start
EditKeyPool == {<<65>>, <<66>>, <<67>>}

\* The table at the start: entries added with add_key, each with the value "x".
EditTables ==
    {<<[name |-> MAIN, entries |-> [j \in DOMAIN ks |-> [key |-> ks[j], value |-> <<120>>]]]>> :
         ks \in DistinctSeqs(EditKeyPool, MaxEditEntries)}

\* What is typed into the dialogs: keys "A", "B", "D", " D" and "a" (invalid in a VC
\* document), values "x" and "y".
EditTypedSingle == [key : {<<65>>, <<66>>, <<68>>, <<SP, 68>>, <<97>>}, value : {<<120>>, <<121>>}]
EditTypedBatch == [key : {<<65>>, <<68>>, <<97>>}, value : {<<121>>}]

\* The ascending sequences of positions 1..n with at least two elements.
RowSets(n) ==
    {q \in SeqsUpTo(1..n, n) : Len(q) >= 2 /\ \A i \in 1..(Len(q) - 1) : q[i] < q[i + 1]}

EditInit ==
    /\ pc = "doc"
    /\ items = <<>> /\ datfile = NoFile /\ parsed = NoResult
    /\ txt = <<>> /\ loaded = NoImport /\ exported = NoFile /\ saved = NoCall
    /\ data \in EditTables /\ version = "VC" /\ filepath = None
    /\ file_type = "gxt" /\ modified = TRUE /\ save_prompt_choice = None
    /\ remember_gen_extra_choice = NoChoice /\ current_table = <<MAIN>>

EditSelectedItem ==
    /\ \E j \in DOMAIN Entries(data, current_table[1]), p \in EditTypedSingle :
           LET pairs == AcceptSingle(p.key, p.value, version, file_type)
           IN  /\ Becomes(edit_selected_items(Editor, <<j>>, pairs))
               /\ loaded' = EditReport(Editor, <<j>>, pairs)
    /\ pc' = "edit"
    /\ UNCHANGED <<txt, exported, saved>>
    /\ UNCHANGED whmVars

BatchEditSelectedItems ==
    /\ \E rows \in RowSets(Len(Entries(data, current_table[1]))),
          ps \in SeqsUpTo(EditTypedBatch, MaxEditEntries) :
           LET pairs == AcceptBatchEdit(ps, Len(rows), version, file_type)
           IN  /\ Becomes(edit_selected_items(Editor, rows, pairs))
               /\ loaded' = EditReport(Editor, rows, pairs)
    /\ pc' = "batch_edit"
    /\ UNCHANGED <<txt, exported, saved>>
    /\ UNCHANGED whmVars

EditNext == EditSelectedItem \/ BatchEditSelectedItems

SpecEdit == EditInit /\ [][EditNext]_vars

\* C28: an edit that was applied leaves the number of entries of every table as
\* it was, has every edited entry at the position it had, with its new key and
\* value, and leaves every other entry as it was; an edit that was refused for a
\* duplicate or conflicting key leaves the data as it was.
C28_EditKeepsShape ==
    /\ (pc \in {"edit", "batch_edit"} /\ loaded.outcome = "applied") =>
           /\ Len(data) = Len(loaded.before)
           /\ \A i \in DOMAIN data :
                  /\ data[i].name = loaded.before[i].name
                  /\ Len(data[i].entries) = Len(loaded.before[i].entries)
                  /\ \A j \in DOMAIN data[i].entries :
                         IF data[i].name = loaded.table[1]
                            /\ \E r \in DOMAIN loaded.rows : loaded.rows[r] = j
                         THEN data[i].entries[j]
                                  = [key |-> EditOf(loaded.rows, loaded.pairs, j).key,
                                     value |-> EditOf(loaded.rows, loaded.pairs, j).value]
                         ELSE data[i].entries[j] = loaded.before[i].entries[j]
    /\ (pc \in {"edit", "batch_edit"} /\ loaded.outcome = "refused") =>
           data = loaded.before


(***************************************************************************)
(* Save as: a document that has no file yet (new_gxt or new_whm, then      *)
(* tables and keys added) is saved through the save dialog.                *)
(***************************************************************************)
\* What the save dialog of save_file_as returns: nothing (cancelled), a name with
\* a wrong extension, a .gxt name, the name whm_table.dat.
SaveAsPaths == SavePaths \cup {"whm_table.dat"}

SaveAsInit ==
    /\ pc = "doc"
    /\ items = <<>> /\ datfile = NoFile /\ parsed = NoResult
    /\ txt = <<>> /\ loaded = NoImport /\ exported = NoFile /\ saved = NoCall
    /\ \/ /\ file_type = "gxt" /\ version \in DialogVersions /\ data \in SaveTables
       \/ /\ file_type = "dat" /\ version = "IV"
          /\ data = <<[name |-> WHM_TABLE, entries |-> <<>>]>>
    /\ filepath = None
    /\ current_table = FirstListed(data)
    /\ modified = TRUE
    /\ save_prompt_choice = None
    /\ remember_gen_extra_choice \in SavedGenExtraChoices

\* Whether save_file_as gets to _save_to_path with the path of the dialog.
SaveAsReaches(ed, path) ==
    /\ ed.version # None /\ path # ""
    /\ IF ed.file_type = "dat" THEN IsDatPath(path) ELSE IsGxtPath(path)

\* The report of a save_file_as: the file path and the flag before it, the path of
\* the dialog, and whether the writer wrote the file.
SaveAsReport(ed, path, written) ==
    [outcome |-> "save_file_as",
     before |-> [filepath |-> ed.filepath, modified |-> ed.modified],
     path |-> path, written |-> SaveAsReaches(ed, path) /\ written.ok]

SaveFileAs ==
    /\ pc = "doc"
    /\ \E path \in SaveAsPaths, w \in WriteAnswers(Editor), g0 \in WriterObjects :
           /\ saved' = IF SaveAsReaches(Editor, path) THEN WriterCall(Editor, w, g0)
                       ELSE NoCall
           /\ saved'.writer = "raised" => ~w.ok
           /\ Becomes(save_file_as(Editor, path, w))
           /\ loaded' = SaveAsReport(Editor, path, w)
    /\ pc' = "save_file_as"
    /\ UNCHANGED <<txt, exported>>
    /\ UNCHANGED whmVars

SaveAsNext == AddKey \/ SaveFileAs

SpecSaveAs == SaveAsInit /\ [][SaveAsNext]_vars

\* C29: save_file_as changes the file path only when the file was written: when
\* the dialog is cancelled, the name is rejected or the writer fails, the file
\* path is the one before and modified is still True.
C29_PathChangesOnlyWhenWritten ==
    (pc = "save_file_as" /\ ~loaded.written) =>
        /\ filepath = loaded.before.filepath
        /\ modified


(***************************************************************************)
(* Merging: TXT files are imported one batch after the other, the first    *)
(* batch opens a document and the later ones are merged into it.  The      *)
(* files share a key with different values.                                *)
(***************************************************************************)
\* "[A]" "A=x" / "[A]" "A=y" "B=y"
MergeFilePool ==
    {JoinLines(<<<<LBRACKET, 65, RBRACKET>>, <<65, EQ, 120>>>>),
     JoinLines(<<<<LBRACKET, 65, RBRACKET>>, <<65, EQ, 121>>, <<66, EQ, 121>>>>)}

MergeBatches == SeqsUpTo(MergeFilePool, MaxFiles)

MergeTxt == OpenTxtOf(MergeBatches)

MergeNext == MergeTxt

SpecMerge == Init /\ [][MergeNext]_vars

\* The value of the key in the table.
ValueOf(d, name, key) == ValueAt(Entries(d, name), key)

\* A merge ran last.
Merged == pc = "open_txt" /\ loaded.outcome = "merged"

\* C30: after a merge with the overwrite declined (or not asked), every (table,
\* key) that was in the document has the value it had, and every (table, key) of
\* the imported data that was not in the document is there with the imported
\* value; after a merge with the overwrite accepted, every key of the imported
\* data has the imported value.  The merge sets modified exactly when an entry was
\* added or overwritten, and the document holds no other entry.
C30_MergeKeepsOrOverwrites ==
    Merged =>
        /\ \A t \in Triples(loaded.before.data) :
               /\ HasEntry(data, t[1], t[2])
               /\ (~loaded.should_overwrite \/ ~HasEntry(loaded.temp_data, t[1], t[2]))
                      => ValueOf(data, t[1], t[2]) = t[3]
        /\ \A t \in Triples(loaded.temp_data) :
               /\ HasEntry(data, t[1], t[2])
               /\ (loaded.should_overwrite \/ ~HasEntry(loaded.before.data, t[1], t[2]))
                      => ValueOf(data, t[1], t[2]) = t[3]
        /\ \A t \in Triples(data) :
               HasEntry(loaded.before.data, t[1], t[2]) \/ HasEntry(loaded.temp_data, t[1], t[2])
        /\ modified <=>
               \/ loaded.before.modified
               \/ \E t \in Triples(loaded.temp_data) :
                      ~HasEntry(loaded.before.data, t[1], t[2]) \/ loaded.should_overwrite

\* The overwrite was declined for a document that holds A=x in the table A and
\* an import of A=y, B=y: A keeps x, B is added and modified is set.
C30_Witness ==
    /\ Merged
    /\ ~loaded.should_overwrite
    /\ ~loaded.before.modified
    /\ HasEntry(loaded.before.data, <<65>>, <<65>>)
    /\ ValueOf(loaded.before.data, <<65>>, <<65>>) = <<120>>
    /\ ValueOf(loaded.temp_data, <<65>>, <<65>>) = <<121>>
    /\ ValueOf(data, <<65>>, <<65>>) = <<120>>
    /\ ValueOf(data, <<65>>, <<66>>) = <<121>>
    /\ modified

=============================================================================
